---- MODULE Spec2Model ----
(***************************************************************************)
(* Model of the smart-environment request router in src/app.py: the        *)
(* pending-request table, the scan cooldown, the classifier gateway, the   *)
(* response gateway, the intent extractor and the conversation log.        *)
(*                                                                         *)
(* Text is a sequence of one-character strings, so that the keyword and    *)
(* pattern matches of the source are computed, not assumed.                *)
(***************************************************************************)
EXTENDS Integers, Sequences, FiniteSets, TLC

(***************************************************************************)
(* Bounds of the model.                                                    *)
(***************************************************************************)
NumWorkers == 2        \* concurrent request-handling threads
MaxCalls == 3          \* accepted /chat and /provide_sensor_data calls in one behaviour
MaxTicks == 1          \* clock advances in one behaviour

(***************************************************************************)
(* Program constants.                                                      *)
(***************************************************************************)
SCAN_COOLDOWN == 10
StartTime == 100       \* time.time() at process start, far beyond the cooldown

None == [t |-> "none"]

Workers == 1 .. NumWorkers

(***************************************************************************)
(* Text helpers.                                                           *)
(***************************************************************************)
UpperCase == <<"A","B","C","D","E","F","G","H","I","J","K","L","M",
               "N","O","P","Q","R","S","T","U","V","W","X","Y","Z">>
LowerCase == <<"a","b","c","d","e","f","g","h","i","j","k","l","m",
               "n","o","p","q","r","s","t","u","v","w","x","y","z">>
Digits == <<"0","1","2","3","4","5","6","7","8","9">>
Whitespace == {" ", "\n", "\t"}

IndexIn(seq, c) == IF \E i \in DOMAIN seq : seq[i] = c
                   THEN CHOOSE i \in DOMAIN seq : seq[i] = c
                   ELSE 0

LowerChar(c) == IF IndexIn(UpperCase, c) > 0 THEN LowerCase[IndexIn(UpperCase, c)] ELSE c

lower(text) == [i \in DOMAIN text |-> LowerChar(text[i])]

\* Python's `kw in text` for strings
Contains(text, kw) ==
    \E i \in 1 .. (Len(text) - Len(kw) + 1) :
        \A j \in 1 .. Len(kw) : text[i + j - 1] = kw[j]

ContainsAny(text, kws) == \E k \in DOMAIN kws : Contains(text, kws[k])

\* Python's str.strip()
RECURSIVE StripLeft(_)
StripLeft(text) == IF text # <<>> /\ Head(text) \in Whitespace
                   THEN StripLeft(Tail(text)) ELSE text
RECURSIVE StripRight(_)
StripRight(text) == IF text # <<>> /\ text[Len(text)] \in Whitespace
                    THEN StripRight(SubSeq(text, 1, Len(text) - 1)) ELSE text
\* faulty variant: the text is taken as it was sent
strip_none(text) == text
strip(text) == StripRight(StripLeft(text))

\* str.upper()
UpperChar(c) == IF IndexIn(LowerCase, c) > 0 THEN UpperCase[IndexIn(LowerCase, c)] ELSE c
upper(text) == [i \in DOMAIN text |-> UpperChar(text[i])]

\* hash(user_message) % 10000: equal texts have equal hashes; the value for a
\* text is a polynomial hash over the letters' positions in the alphabet.
CharCode(c) == IF IndexIn(LowerCase, c) > 0 THEN IndexIn(LowerCase, c)
               ELSE IF IndexIn(UpperCase, c) > 0 THEN 26 + IndexIn(UpperCase, c)
               ELSE IF IndexIn(Digits, c) > 0 THEN 52 + IndexIn(Digits, c)
               ELSE 63
RECURSIVE HashMod(_)
HashMod(text) == IF text = <<>> THEN 7
                 ELSE (31 * HashMod(SubSeq(text, 1, Len(text) - 1)) + CharCode(text[Len(text)])) % 10000

(***************************************************************************)
(* JSON values as the classifier sees them.                                *)
(***************************************************************************)
JBool(b) == [t |-> "bool", b |-> b]
JStr(s) == [t |-> "str", s |-> s]
JNum(n) == [t |-> "num", n |-> n]
JNull == [t |-> "null"]
JList == [t |-> "list"]
JObj(o) == [t |-> "dict", o |-> o]

Sessions == {"s1"}

(***************************************************************************)
(* Query Store: the two fixed templates (a query is its token sequence).   *)
(***************************************************************************)
ConversationsQuery ==
    <<"SELECT", "message_type", ",", "content", ",", "metadata", ",", "sensor_data", ",",
      "created_at", "FROM", "conversations", "WHERE", "session_id", "=", "%s",
      "ORDER", "BY", "created_at", "DESC", "LIMIT", "20">>

EnvironmentChangesQuery ==
    <<"SELECT", "factor", ",", "previous_value", ",", "new_value", ",", "reasoning", ",",
      "activity_context", ",", "created_at", "FROM", "environment_changes", "WHERE",
      "session_id", "=", "%s", "ORDER", "BY", "created_at", "DESC", "LIMIT", "15">>

get_predefined_queries(session_id) ==
    << [purpose |-> "Get recent conversation history for context",
        query |-> ConversationsQuery,
        parameters |-> <<session_id>>],
       [purpose |-> "Get recent environment changes for context",
        query |-> EnvironmentChangesQuery,
        parameters |-> <<session_id>>] >>

(***************************************************************************)
(* Scan cooldown.                                                          *)
(***************************************************************************)
can_scan_now(current_time, last_scan) == (current_time - last_scan) >= SCAN_COOLDOWN

scan_keywords ==
    << <<"s","c","a","n">>,
       <<"c","h","e","c","k"," ","e","n","v","i","r","o","n","m","e","n","t">>,
       <<"c","u","r","r","e","n","t"," ","c","o","n","d","i","t","i","o","n","s">>,
       <<"r","e","a","l","-","t","i","m","e">>,
       <<"r","i","g","h","t"," ","n","o","w">>,
       <<"l","i","v","e"," ","d","a","t","a">>,
       <<"u","p","d","a","t","e"," ","s","e","n","s","o","r","s">> >>

needs_explicit_scan(user_message) == ContainsAny(lower(user_message), scan_keywords)

(***************************************************************************)
(* Classifier Gateway.                                                     *)
(***************************************************************************)
\* extract_json_from_response: the content is a JSON document (`bare`), a JSON
\* object inside a fenced block or inside prose, or text with no JSON in it.
\* A bare document parses directly; the fenced pattern of the source matches
\* the empty string, whose parse fails; the outermost-brace match then
\* recovers an object from a fenced block or from prose.
extract_json_from_response(content) ==
    CASE content.wrap = "bare" -> content.value
      [] content.wrap \in {"fenced", "prose"} -> content.value
      [] OTHER -> None

dget(obj, key, default) == IF key \in DOMAIN obj THEN obj[key] ELSE default

\* line 265: truth value of the parsed needs_sensor_data
needs_bool(needs) ==
    CASE needs.t = "str" -> strip(lower(needs.s)) \in
                              { <<"t","r","u","e">>, <<"1">>, <<"y","e","s">> }
      [] needs.t = "bool" -> needs.b
      [] needs.t = "num" -> needs.n # 0
      [] needs.t = "null" -> FALSE
      [] needs.t = "list" -> FALSE
      [] OTHER -> TRUE

SafeDefault ==
    [needs_sensor_data |-> TRUE,
     message_type |-> JStr("real_time_optimization"),
     reasoning |-> JStr("Fallback: classification failed or unparsable model output"),
     sql_queries |-> <<>>]

ClassifierErrorFallback ==
    [needs_sensor_data |-> TRUE,
     message_type |-> JStr("real_time_optimization"),
     reasoning |-> JStr("Fallback due to classifier error"),
     sql_queries |-> <<>>]

\* lines 257-269: the classification after reading the model's reply
ParsedClassification(result) ==
    IF result.kind = "choices" /\ result.content # None
    THEN LET parsed == extract_json_from_response(result.content)
         IN IF parsed.t = "dict"
            THEN [SafeDefault EXCEPT
                    !.needs_sensor_data =
                        needs_bool(dget(parsed.o, "needs_sensor_data", JBool(TRUE))),
                    !.message_type = dget(parsed.o, "message_type", SafeDefault.message_type),
                    !.reasoning = dget(parsed.o, "reasoning", SafeDefault.reasoning)]
            ELSE SafeDefault
    ELSE SafeDefault

\* faulty variant: the query list of the fallback record is returned as it stands
AttachQueries_keep(classification, session_id) == classification

\* lines 271-277: the query list is fixed by the decision alone
AttachQueries(classification, session_id) ==
    [classification EXCEPT !.sql_queries =
        IF ~classification.needs_sensor_data
        THEN get_predefined_queries(session_id) ELSE <<>>]

\* what sends the call to the except clause of line 282: a transport failure, a
\* bad status or an undecodable body (kind "error"), or a null content, on
\* which .strip() of line 259 raises
ClassifierRaises(result) ==
    \/ result.kind = "error"
    \/ result.kind = "choices" /\ result.content = None

\* lines 211-284: the branch that calls the hosted model; `result` is what the
\* call produced
ClassifyWithModel(result, session_id) ==
    IF ClassifierRaises(result)
    THEN ClassifierErrorFallback
    ELSE AttachQueries(ParsedClassification(result), session_id)

\* faulty variant: an explicit scan request always starts a scan, cooldown or not
ClassifyExplicitScan_always(session_id, current_time, last_scan) ==
    [needs_sensor_data |-> TRUE,
     message_type |-> JStr("real_time_scan"),
     reasoning |-> JStr("Explicit scan request detected"),
     sql_queries |-> <<>>]

\* lines 193-209: the deterministic branch for explicit scan requests
ClassifyExplicitScan(session_id, current_time, last_scan) ==
    IF can_scan_now(current_time, last_scan)
    THEN [needs_sensor_data |-> TRUE,
          message_type |-> JStr("real_time_scan"),
          reasoning |-> JStr("Explicit scan request detected"),
          sql_queries |-> <<>>]
    ELSE [needs_sensor_data |-> FALSE,
          message_type |-> JStr("cached_data_response"),
          reasoning |-> JStr("Explicit scan requested but in cooldown, using cached data"),
          sql_queries |-> get_predefined_queries(session_id)]

\* the reply carries a JSON object with the three fields, none of them null
WellFormed(result) ==
    /\ result.kind = "choices"
    /\ result.content # None
    /\ extract_json_from_response(result.content).t = "dict"
    /\ \A k \in {"needs_sensor_data", "message_type", "reasoning"} :
          /\ k \in DOMAIN extract_json_from_response(result.content).o
          /\ extract_json_from_response(result.content).o[k] # JNull

(***************************************************************************)
(* Intent Extractor.                                                       *)
(***************************************************************************)
activity_keywords ==
    << [activity |-> <<"s","t","u","d","y">>, keywords |-> << <<"s","t","u","d","y">>, <<"l","e","a","r","n">>, <<"e","x","a","m">>, <<"h","o","m","e","w","o","r","k">>, <<"c","o","n","c","e","n","t","r","a","t","e">> >>],
       [activity |-> <<"s","l","e","e","p">>, keywords |-> << <<"s","l","e","e","p">>, <<"b","e","d">>, <<"t","i","r","e","d">>, <<"n","a","p">>, <<"r","e","s","t">> >>],
       [activity |-> <<"y","o","g","a">>, keywords |-> << <<"y","o","g","a">>, <<"e","x","e","r","c","i","s","e">>, <<"w","o","r","k","o","u","t">>, <<"m","e","d","i","t","a","t","e">> >>],
       [activity |-> <<"r","e","a","d">>, keywords |-> << <<"r","e","a","d">>, <<"b","o","o","k">>, <<"n","o","v","e","l">>, <<"a","r","t","i","c","l","e">> >>],
       [activity |-> <<"w","o","r","k">>, keywords |-> << <<"w","o","r","k">>, <<"f","o","c","u","s">>, <<"p","r","o","j","e","c","t">>, <<"d","e","a","d","l","i","n","e">> >>],
       [activity |-> <<"r","e","l","a","x">>, keywords |-> << <<"r","e","l","a","x">>, <<"c","h","i","l","l">>, <<"u","n","w","i","n","d">>, <<"t","v">>, <<"m","o","v","i","e">> >>] >>

General == <<"g","e","n","e","r","a","l">>

\* faulty variant: the loop does not stop at the first category that matches
extract_activity_context_last(user_message) ==
    LET user_lower == lower(user_message)
        hits == {i \in DOMAIN activity_keywords :
                    ContainsAny(user_lower, activity_keywords[i].keywords)}
    IN IF hits = {} THEN General
       ELSE activity_keywords[CHOOSE i \in hits : \A j \in hits : j <= i].activity

\* lines 521-527: the first category, in dictionary order, with a keyword present
extract_activity_context(user_message) ==
    LET user_lower == lower(user_message)
        hits == {i \in DOMAIN activity_keywords :
                    ContainsAny(user_lower, activity_keywords[i].keywords)}
    IN IF hits = {} THEN General
       ELSE activity_keywords[CHOOSE i \in hits : \A j \in hits : i <= j].activity

\* a Python dict as a function on the keys present
EmptyDict == [k \in {} |-> None]
Put(d, key, value) == [k \in (DOMAIN d) \cup {key} |-> IF k = key THEN value ELSE d[k]]
Del(d, keys) == [k \in (DOMAIN d) \ keys |-> d[k]]
Update(d, e) == [k \in (DOMAIN d) \cup (DOMAIN e) |-> IF k \in DOMAIN e THEN e[k] ELSE d[k]]

\* The device-control functions return [msg, commands]: the text they return
\* (a format string and its arguments) and the command map after the call.
control_rgb_color(color, commands) ==
    [msg |-> <<"RGB light set to", color>>,
     commands |-> Put(commands, "rgb_color", color)]

\* lines 536-548 with action=None: a duration of 0 is falsy
control_buzzer(duration, commands) ==
    IF duration # 0
    THEN [msg |-> <<"Buzzer set for seconds", duration>>,
          commands |-> Put(Put(commands, "buzzer_duration", duration), "buzzer_action", "beep")]
    ELSE [msg |-> <<"No buzzer action specified">>, commands |-> commands]

set_alarm(duration, alarm_type, commands) ==
    [msg |-> <<"Alarm set for seconds", duration, alarm_type>>,
     commands |-> Put(Put(Put(commands, "alarm", TRUE), "alarm_duration", duration),
                      "alarm_type", alarm_type)]

set_oled_display(text, commands) ==
    [msg |-> <<"OLED display set to", text>>,
     commands |-> Put(commands, "oled_text", text)]

\* re.search(r'(\d+)\s*sec', text): the leftmost match, digits taken greedily
IsDigit(c) == IndexIn(Digits, c) > 0
RECURSIVE DigitRunEnd(_, _)
DigitRunEnd(text, i) == IF i + 1 <= Len(text) /\ IsDigit(text[i + 1])
                        THEN DigitRunEnd(text, i + 1) ELSE i
RECURSIVE SkipSpace(_, _)
SkipSpace(text, i) == IF i <= Len(text) /\ text[i] \in Whitespace
                      THEN SkipSpace(text, i + 1) ELSE i
SecAt(text, i) == i + 2 <= Len(text) /\ text[i] = "s" /\ text[i + 1] = "e" /\ text[i + 2] = "c"
DurationMatchAt(text, i) ==
    IsDigit(text[i]) /\ SecAt(text, SkipSpace(text, DigitRunEnd(text, i) + 1))
RECURSIVE ToInt(_)
ToInt(digits) == IF digits = <<>> THEN 0
                 ELSE 10 * ToInt(SubSeq(digits, 1, Len(digits) - 1))
                      + (IndexIn(Digits, digits[Len(digits)]) - 1)
\* int(duration_match.group(1)) if duration_match else default
DurationOr(text, default) ==
    LET starts == {i \in DOMAIN text : DurationMatchAt(text, i)}
    IN IF starts = {} THEN default
       ELSE LET i == CHOOSE k \in starts : \A j \in starts : k <= j
            IN ToInt(SubSeq(text, i, DigitRunEnd(text, i)))

ColorOf(combined_text) ==
    IF Contains(combined_text, <<"r","e","d">>) THEN "red"
    ELSE IF Contains(combined_text, <<"b","l","u","e">>) THEN "blue"
    ELSE IF Contains(combined_text, <<"g","r","e","e","n">>) THEN "green"
    ELSE IF Contains(combined_text, <<"y","e","l","l","o","w">>) THEN "yellow"
    ELSE IF Contains(combined_text, <<"p","u","r","p","l","e">>) \/ Contains(combined_text, <<"v","i","o","l","e","t">>) THEN "purple"
    ELSE IF Contains(combined_text, <<"c","y","a","n">>) THEN "cyan"
    ELSE IF Contains(combined_text, <<"w","h","i","t","e">>) THEN "white"
    ELSE "none"

\* faulty variant: the reminder keyword is looked at before the urgent ones
AlarmTypeOf_reminder_first(combined_text) ==
    IF Contains(combined_text, <<"r","e","m","i","n","d","e","r">>) THEN "reminder"
    ELSE IF Contains(combined_text, <<"u","r","g","e","n","t">>) \/ Contains(combined_text, <<"e","m","e","r","g","e","n","c","y">>) THEN "urgent"
    ELSE "standard"

AlarmTypeOf(combined_text) ==
    IF Contains(combined_text, <<"u","r","g","e","n","t">>) \/ Contains(combined_text, <<"e","m","e","r","g","e","n","c","y">>) THEN "urgent"
    ELSE IF Contains(combined_text, <<"r","e","m","i","n","d","e","r">>) THEN "reminder"
    ELSE "standard"

\* lines 571-613: the control calls parse_device_commands makes, in order
DeviceCalls(llm_response, user_message) ==
    LET combined_text == lower(user_message \o <<" ">> \o llm_response)
        rgb == IF ContainsAny(combined_text, << <<"r","e","d">>, <<"b","l","u","e">>, <<"g","r","e","e","n">>, <<"y","e","l","l","o","w">>, <<"p","u","r","p","l","e">>, <<"c","y","a","n">>, <<"w","h","i","t","e">> >>) /\ ColorOf(combined_text) # "none"
               THEN << [f |-> "control_rgb_color", color |-> ColorOf(combined_text)] >>
               ELSE <<>>
        buzzer == IF Contains(combined_text, <<"b","u","z","z","e","r">>) \/ Contains(combined_text, <<"b","e","e","p">>)
                  THEN << [f |-> "control_buzzer",
                           duration |-> DurationOr(combined_text, 2)] >>
                  ELSE <<>>
        alarm == IF Contains(combined_text, <<"a","l","a","r","m">>)
                 THEN << [f |-> "set_alarm",
                          duration |-> DurationOr(combined_text, 10),
                          alarm_type |-> AlarmTypeOf(combined_text)] >>
                 ELSE <<>>
        oled == IF ContainsAny(combined_text, << <<"d","i","s","p","l","a","y">>, <<"s","h","o","w">>, <<"o","l","e","d">>, <<"s","c","r","e","e","n">> >>)
                THEN << [f |-> "set_oled_display",
                         text |-> <<"Activity: ">> \o
                                  upper(extract_activity_context(user_message))] >>
                ELSE <<>>
    IN rgb \o buzzer \o alarm \o oled

Control(call, commands) ==
    CASE call.f = "control_rgb_color" -> control_rgb_color(call.color, commands)
      [] call.f = "control_buzzer" -> control_buzzer(call.duration, commands)
      [] call.f = "set_alarm" -> set_alarm(call.duration, call.alarm_type, commands)
      [] call.f = "set_oled_display" -> set_oled_display(call.text, commands)

RECURSIVE RunCalls(_, _)
RunCalls(device_calls, state) ==
    IF device_calls = <<>> THEN state
    ELSE LET r == Control(Head(device_calls), state.commands)
         IN RunCalls(Tail(device_calls),
                     [device_commands |-> Append(state.device_commands, r.msg),
                      commands |-> r.commands])

\* sensor_data.get(key, 'unknown')
SensorGet(sensor_data, key) ==
    IF key \in DOMAIN sensor_data THEN JNum(sensor_data[key]) ELSE JStr("unknown")

\* lines 941-974
parse_environment_changes(llm_response, sensor_data) ==
    LET text == lower(llm_response)
        temp == IF Contains(text, <<"t","e","m","p","e","r","a","t","u","r","e">>)
                THEN << [factor |-> "temperature",
                         previous_value |-> SensorGet(sensor_data, "temperature"),
                         new_value |-> "22",
                         reasoning |-> "Optimal temperature for comfort and focus"] >>
                ELSE <<>>
        light == IF Contains(text, <<"l","i","g","h","t">>) \/ Contains(text, <<"b","r","i","g","h","t">>)
                 THEN << [factor |-> "light",
                          previous_value |-> SensorGet(sensor_data, "light"),
                          new_value |-> "2500",
                          reasoning |-> "Improved lighting for the activity"] >>
                 ELSE <<>>
        fan == IF Contains(text, <<"f","a","n">>) \/ Contains(text, <<"a","i","r","f","l","o","w">>)
               THEN << [factor |-> "fan_speed",
                        previous_value |-> JStr("off"),
                        new_value |-> "medium",
                        reasoning |-> "Better air circulation"] >>
               ELSE <<>>
    IN temp \o light \o fan


(***************************************************************************)
(* Inputs of the environment: request bodies, model replies, sensor        *)
(* snapshots.                                                              *)
(***************************************************************************)
MsgScan == <<"S","c","a","n"," ","n","o","w">>
MsgStudy == <<"s","t","u","d","y"," ">>
MsgBlank == <<" ">>
MsgEmpty == <<>>
RawMessages == {MsgScan, MsgStudy, MsgBlank, MsgEmpty}

UnknownId == <<0, 0>>

Snapshots == { [temperature |-> 30, light |-> 100] }

\* what the hosted classification model can send back
Content(wrap, value) == [wrap |-> wrap, value |-> value]
ClassifierResults ==
    { [kind |-> "error"],
      [kind |-> "nochoices"],
      [kind |-> "choices", content |-> None],
      [kind |-> "choices", content |-> Content("garbage", None)],
      [kind |-> "choices", content |-> Content("bare", JList)],
      [kind |-> "choices", content |-> Content("bare",
          JObj([needs_sensor_data |-> JBool(TRUE),
                message_type |-> JStr("real_time_optimization"),
                reasoning |-> JStr("r")]))],
      [kind |-> "choices", content |-> Content("bare",
          JObj([needs_sensor_data |-> JBool(FALSE),
                message_type |-> JStr("past_data_query"),
                reasoning |-> JStr("r")]))],
      [kind |-> "choices", content |-> Content("fenced",
          JObj([needs_sensor_data |-> JStr(<<"N","o">>),
                message_type |-> JStr("past_data_query"),
                reasoning |-> JStr("r"),
                sql_queries |-> JStr("DROP TABLE conversations")]))],
      [kind |-> "choices", content |-> Content("prose",
          JObj([needs_sensor_data |-> JStr(<<" ","Y","e","s">>),
                message_type |-> JStr("real_time_optimization"),
                reasoning |-> JStr("r")]))],
      [kind |-> "choices", content |-> Content("bare",
          JObj([needs_sensor_data |-> JNull,
                message_type |-> JStr("past_data_query"),
                reasoning |-> JStr("r")]))],
      [kind |-> "choices", content |-> Content("bare",
          JObj([needs_sensor_data |-> JBool(FALSE)]))],
      [kind |-> "choices", content |-> Content("bare",
          JObj([message_type |-> JStr("past_data_query"),
                reasoning |-> JStr("r")]))] }
NoCall == [kind |-> "not called"]

\* the replies the request lifecycle is explored with: one of each decision
LifecycleResults ==
    { r \in ClassifierResults :
        \/ r.kind = "error"
        \/ /\ WellFormed(r)
           /\ extract_json_from_response(r.content).o.needs_sensor_data = JBool(FALSE) }

\* what the hosted generation model can send back
RespRedAlarm == <<"r","e","d"," ","a","l","a","r","m"," ","5"," ","s","e","c"," ","f","a","n">>
GenerationResults ==
    { [ok |-> FALSE], [ok |-> TRUE, text |-> RespRedAlarm] }

\* lines 789-793: the text substituted for a failed generation
Apology ==
   <<
      "S","o","r","r","y"," ","-"," ","I","'","m"," ","h","a","v","i","n","g"," ","t",
      "r","o","u","b","l","e"," ","g","e","n","e","r","a","t","i","n","g"," ","a"," ",
      "f","u","l","l"," ","a","n","s","w","e","r"," ","r","i","g","h","t"," ","n","o",
      "w","."," ","I"," ","c","a","n"," ","s","t","i","l","l"," ","t","r","y"," ","t",
      "o"," ","h","e","l","p"," ","b","a","s","e","d"," ","o","n"," ","w","h","a","t",
      " ","I"," ","r","e","m","e","m","b","e","r",":"," ","p","l","e","a","s","e"," ",
      "a","s","k"," ","a","g","a","i","n"," ","o","r"," ","c","h","e","c","k"," ","t",
      "h","e"," ","c","o","n","v","e","r","s","a","t","i","o","n"," ","h","i","s","t",
      "o","r","y","."
   >>


(***************************************************************************)
(* Intent extraction (lines 509-616), applied to texts built from the      *)
(* keywords of the source.                                                 *)
(***************************************************************************)
\* the words joined by single spaces
RECURSIVE Join(_)
Join(words) == IF words = <<>> THEN <<>>
               ELSE IF Len(words) = 1 THEN words[1]
               ELSE words[1] \o <<" ">> \o Join(Tail(words))

\* the words of `order` that are in `chosen`, joined in that order
Pick(order, chosen) == Join(SelectSeq(order, LAMBDA word : word \in chosen))

\* line 572: the colour names, here from the last of the list to the first,
\* and the synonym of line 581
ColorWords == << <<"w","h","i","t","e">>, <<"v","i","o","l","e","t">>, <<"c","y","a","n">>,
                 <<"p","u","r","p","l","e">>, <<"y","e","l","l","o","w">>, <<"g","r","e","e","n">>,
                 <<"b","l","u","e">>, <<"r","e","d">> >>
UserColorWords == {ColorWords[1], ColorWords[2], ColorWords[5], ColorWords[7]}

\* [user_message, llm_response] with every set of colour words between them
ColorInputs ==
    { << Pick(ColorWords, chosen \cap UserColorWords),
         Pick(ColorWords, chosen \ UserColorWords) >> :
        chosen \in SUBSET {ColorWords[i] : i \in DOMAIN ColorWords} }

\* lines 589-606: a trigger, a duration and the words that select the alarm type
TriggerWords == { <<>>, <<"a","l","a","r","m">>, <<"b","u","z","z","e","r">>, <<"b","e","e","p">>,
                  <<"a","l","a","r","m"," ","a","n","d"," ","b","u","z","z","e","r">> }
DurationWords == { <<>>, <<"f","o","r"," ","2"," ","s","e","c","o","n","d","s">>,
                   <<"0"," ","s","e","c">>, <<"1","5","s","e","c">>,
                   <<"i","n"," ","7"," ","s","e","c"," ","o","r"," ","3"," ","s","e","c">> }
TypeWords == { <<>>, <<"u","r","g","e","n","t">>, <<"r","e","m","i","n","d","e","r">>,
               <<"r","e","m","i","n","d","e","r"," ","e","m","e","r","g","e","n","c","y">>,
               <<"U","r","g","e","n","t"," ","r","e","m","i","n","d","e","r">> }
AlarmInputs ==
    { << Join(SelectSeq(<< <<"s","e","t">>, trigger, duration >>, LAMBDA word : word # <<>>)),
         kind >> :
        trigger \in TriggerWords, duration \in DurationWords, kind \in TypeWords }

\* lines 512-519: one keyword of each category, from the last category to the
\* first, every keyword alone, and the sentences of the documentation
ActivityWords == << <<"m","o","v","i","e">>, <<"d","e","a","d","l","i","n","e">>, <<"n","o","v","e","l">>,
                    <<"m","e","d","i","t","a","t","e">>, <<"n","a","p">>, <<"e","x","a","m">> >>
ActivityMessages ==
    { Pick(ActivityWords, chosen) : chosen \in SUBSET {ActivityWords[i] : i \in DOMAIN ActivityWords} }
    \cup { activity_keywords[i].keywords[k] :
              i \in DOMAIN activity_keywords, k \in 1 .. 4 }
    \cup { <<"I","'","m"," ","s","t","u","d","y","i","n","g"," ","n","o","w">>,
           <<"t","u","r","n"," ","l","i","g","h","t"," ","t","o"," ","r","e","d">>,
           <<"W","a","t","c","h"," ","T","V">> }
DisplayReplies == { <<>>, <<"I"," ","w","i","l","l"," ","s","h","o","w"," ","i","t"," ","o","n"," ","t","h","e"," ","d","i","s","p","l","a","y">> }
ActivityInputs == ActivityMessages \X DisplayReplies

IntentInputs == ColorInputs \cup AlarmInputs \cup ActivityInputs

\* a command map left by earlier requests
OldCommands ==
    [rgb_color |-> "green", buzzer_duration |-> 9, buzzer_action |-> "beep",
     alarm_duration |-> 30, alarm_type |-> "reminder", oled_text |-> <<"o","l","d">>]

(***************************************************************************)
(* The pure functions of the source, tabulated once over the texts the     *)
(* model uses.                                                             *)
(***************************************************************************)
Messages == {strip(raw) : raw \in RawMessages} \ {<<>>}
Replies == {gen.text : gen \in {g \in GenerationResults : g.ok}} \cup {Apology}

StripTable == [raw \in RawMessages |-> strip(raw)]
ExplicitScanTable == [m \in Messages |-> needs_explicit_scan(m)]
HashTable == [m \in Messages |-> HashMod(m)]
ActivityTable == [m \in Messages |-> extract_activity_context(m)]
DeviceCallsTable == [m \in Messages |-> [r \in Replies |-> DeviceCalls(r, m)]]
\* the same two functions over the texts of IntentInputs
IntentActivityTable == [m \in {input[1] : input \in IntentInputs} |-> extract_activity_context(m)]
IntentCallsTable == [input \in IntentInputs |-> DeviceCalls(input[2], input[1])]
ChangesTable == [r \in Replies |-> [sd \in Snapshots |-> parse_environment_changes(r, sd)]]

\* lines 564-616; returns [device_commands, commands]: the list of the texts
\* returned by the control functions and the command map after they ran
parse_device_commands(llm_response, user_message, commands) ==
    RunCalls(DeviceCallsTable[user_message][llm_response],
             [device_commands |-> <<>>, commands |-> commands])

\* faulty variant: the hosted model is asked before the keywords are looked at
InvokesModel_first(user_message) == TRUE

\* whether classify_and_generate_queries reaches the requests.post of line 234
InvokesModel(user_message) == ~ExplicitScanTable[user_message]

classify_and_generate_queries(user_message, session_id, result, current_time, last_scan) ==
    IF InvokesModel(user_message)
    THEN ClassifyWithModel(result, session_id)
    ELSE ClassifyExplicitScan(session_id, current_time, last_scan)

(***************************************************************************)
(* State.                                                                  *)
(***************************************************************************)
VARIABLES
    pending_requests,     \* the table, in insertion order (a Python dict)
    pending_lock,         \* 0 when free, else the worker inside `with pending_lock`
    current_sensor_data,  \* process-wide sensor cache
    esp8266_commands,     \* outgoing device-command map
    last_sensor_scan,     \* scan-cooldown timestamp
    now,                  \* the clock, in seconds
    conversations,        \* rows of table conversations, in insertion order
    environment_changes,  \* rows of table environment_changes
    db_up,                \* whether get_db_connection succeeds
    calls,                \* per worker: the handler call in progress
    response,             \* the HTTP response returned last, with the call it answers
    scan_event,           \* the last write to the cooldown: reset (process start,
                          \* /force_scan) or completed (a delivery, with its time)
    calls_made, ticks

vars == <<pending_requests, pending_lock, current_sensor_data, esp8266_commands,
          last_sensor_scan, now, conversations, environment_changes, db_up,
          calls, response, scan_event, calls_made, ticks>>

Idle == [pc |-> "idle"]
NoResponse == [handler |-> "none"]

\* Replies are outputs: no handler reads them. A reply is handed to its client
\* (Return) before the next step of any handler is taken.
Quiet == response = NoResponse

\* a new call runs on the first idle worker thread
FirstIdle(w) == /\ calls[w].pc = "idle"
                /\ \A v \in Workers : calls[v].pc = "idle" => w <= v

At(t) == [t |-> "time", at |-> t]
Req(request_id) == [t |-> "request", id |-> request_id]

Init ==
    /\ pending_requests = <<>>
    /\ pending_lock = 0
    /\ current_sensor_data = [temperature |-> 0, humidity |-> 0, light |-> 0]
    /\ esp8266_commands = EmptyDict
    /\ last_sensor_scan = 0
    /\ now = StartTime
    /\ conversations = <<>>
    /\ environment_changes = <<>>
    /\ db_up = TRUE
    /\ calls = [w \in Workers |-> Idle]
    /\ response = NoResponse
    /\ scan_event = [event |-> "reset"]
    /\ calls_made = 0
    /\ ticks = 0

(***************************************************************************)
(* Conversation/Change Log.                                                *)
(***************************************************************************)
\* lines 364-392: nothing is written when no connection is available
store_conversation(rows, up, session_id, message_type, content, metadata, sensor_data, request_id) ==
    IF up
    THEN Append(rows, [session_id |-> session_id, message_type |-> message_type,
                       content |-> content, metadata |-> metadata,
                       sensor_data |-> sensor_data, request_id |-> request_id])
    ELSE rows

\* lines 394-423, for the whole list of changes of one delivery (lines 900-909)
RECURSIVE store_environment_changes(_, _, _, _, _, _)
store_environment_changes(rows, up, session_id, request_id, changes, activity_context) ==
    IF changes = <<>> \/ ~up THEN rows
    ELSE store_environment_changes(
            Append(rows, [session_id |-> session_id, request_id |-> request_id,
                          factor |-> Head(changes).factor,
                          previous_value |-> Head(changes).previous_value,
                          new_value |-> Head(changes).new_value,
                          reasoning |-> Head(changes).reasoning,
                          activity_context |-> activity_context]),
            up, session_id, request_id, Tail(changes), activity_context)

(***************************************************************************)
(* Pending Request Coordinator.                                            *)
(***************************************************************************)
Ids(table) == {table[i].request_id : i \in DOMAIN table}
IndexOfId(table, request_id) ==
    IF request_id \in Ids(table)
    THEN CHOOSE i \in DOMAIN table : table[i].request_id = request_id
    ELSE 0
Entry(table, request_id) == table[IndexOfId(table, request_id)]

\* faulty variant: the table is rebuilt around the entry that is set
DictSet_rebuilt(table, entry) == <<entry>>

\* pending_requests[request_id] = entry: a present key keeps its position
DictSet(table, entry) ==
    IF entry.request_id \in Ids(table)
    THEN [table EXCEPT ![IndexOfId(table, entry.request_id)] = entry]
    ELSE Append(table, entry)

\* line 735: req_<timestamp to the second>_<hash of the message mod 10000>
RequestId(current_time, user_message) == <<current_time, HashTable[user_message]>>

\* lines 739-747
NewPending(request_id, user_message, session_id, classification, current_time) ==
    [request_id |-> request_id,
     user_message |-> user_message,
     session_id |-> session_id,
     classification |-> classification,
     status |-> "waiting_for_sensors",
     created_at |-> current_time,
     sensor_data |-> None,
     result |-> None,
     completed_at |-> None]

\* faulty variant: the status is flipped and the result is left as it was
Completed_status_only(entry, final_response, current_time) ==
    [entry EXCEPT !.status = "completed",
                  !.completed_at = At(current_time)]

\* lines 920-922
Completed(entry, final_response, current_time) ==
    [entry EXCEPT !.result = final_response,
                  !.status = "completed",
                  !.completed_at = At(current_time)]

\* lines 800-802 and 893-895: the reply text followed by the device actions
FinalResponse(llm_response, device_commands) ==
    [text |-> llm_response, device_actions |-> device_commands]

\* faulty variant: the history is filtered by the classifier's message type as well
InfoQueries_by_type(session_id, classification) ==
    [i \in 1 .. 2 |->
        [get_predefined_queries(session_id)[i] EXCEPT
            !.parameters = <<session_id, classification.message_type.s>>]]

\* line 766: the queries the information path hands to execute_sql_queries
InfoQueries(session_id, classification) == get_predefined_queries(session_id)

\* lines 785-793: the information path absorbs a failed generation
InfoGeneration(gen) == IF gen.ok THEN gen.text ELSE Apology

\* line 886: the action path takes the reply as it comes; a failure raises
ActionGenerationRaises(gen) == ~gen.ok

\* faulty variant: the timestamp is left as it was at process start
update_scan_time_stale(current_time) == 0

\* lines 173-176, 1227
update_scan_time(current_time) == current_time
ForceScanValue == 0


(***************************************************************************)
(* POST /chat (lines 681-829).                                             *)
(***************************************************************************)
\* faulty variant: the user turn is not logged before classification
ChatReceive_unlogged(w, raw, session_id) ==
    /\ Quiet
    /\ FirstIdle(w)
    /\ calls_made < MaxCalls
    /\ LET user_message == StripTable[raw]
       IN IF user_message = <<>>
          THEN /\ response' = [handler |-> "chat", code |-> 400,
                               body |-> [error |-> "Please provide a message",
                                         status |-> "error"],
                               call |-> [raw |-> raw]]
               /\ UNCHANGED <<calls, conversations, calls_made>>
          ELSE /\ conversations' = conversations
               /\ calls' = [calls EXCEPT ![w] =
                               [pc |-> "classify", user_message |-> user_message,
                                session_id |-> session_id]]
               /\ calls_made' = calls_made + 1
               /\ UNCHANGED response
    /\ UNCHANGED <<pending_requests, pending_lock, current_sensor_data, esp8266_commands,
                   last_sensor_scan, now, environment_changes, db_up, scan_event, ticks>>

\* faulty variant: a failed write of the user turn ends the call with a 500
ChatReceive_store_abort(w, raw, session_id) ==
    /\ Quiet
    /\ FirstIdle(w)
    /\ calls_made < MaxCalls
    /\ LET user_message == StripTable[raw]
       IN IF user_message = <<>> \/ ~db_up
          THEN /\ response' = [handler |-> "chat",
                               code |-> IF user_message = <<>> THEN 400 ELSE 500,
                               body |-> [error |-> "Please provide a message",
                                         status |-> "error"],
                               call |-> [raw |-> raw]]
               /\ UNCHANGED <<calls, conversations, calls_made>>
          ELSE /\ conversations' = store_conversation(conversations, db_up, session_id,
                                       "user", user_message, None, None, None)
               /\ calls' = [calls EXCEPT ![w] =
                               [pc |-> "classify", user_message |-> user_message,
                                session_id |-> session_id]]
               /\ calls_made' = calls_made + 1
               /\ UNCHANGED response
    /\ UNCHANGED <<pending_requests, pending_lock, current_sensor_data, esp8266_commands,
                   last_sensor_scan, now, environment_changes, db_up, scan_event, ticks>>

\* lines 689-702: body read, empty message refused, user turn logged
ChatReceive(w, raw, session_id) ==
    /\ Quiet
    /\ FirstIdle(w)
    /\ calls_made < MaxCalls
    /\ LET user_message == StripTable[raw]
       IN IF user_message = <<>>
          THEN /\ response' = [handler |-> "chat", code |-> 400,
                               body |-> [error |-> "Please provide a message",
                                         status |-> "error"],
                               call |-> [raw |-> raw]]
               /\ UNCHANGED <<calls, conversations, calls_made>>
          ELSE /\ conversations' = store_conversation(conversations, db_up, session_id,
                                       "user", user_message, None, None, None)
               /\ calls' = [calls EXCEPT ![w] =
                               [pc |-> "classify", user_message |-> user_message,
                                session_id |-> session_id]]
               /\ calls_made' = calls_made + 1
               /\ UNCHANGED response
    /\ UNCHANGED <<pending_requests, pending_lock, current_sensor_data, esp8266_commands,
                   last_sensor_scan, now, environment_changes, db_up, scan_event, ticks>>

\* lines 706-715: classification, with the model's reply when it is asked;
\* `results` are the replies the hosted model may give to this call
ChatClassifyWith(w, results) ==
    /\ Quiet
    /\ calls[w].pc = "classify"
    /\ LET c == calls[w]
           invoked == InvokesModel(c.user_message)
       IN \E result \in (IF invoked THEN results ELSE {NoCall}) :
            calls' = [calls EXCEPT ![w] =
                        [pc |-> "route", user_message |-> c.user_message,
                         session_id |-> c.session_id,
                         classification |-> classify_and_generate_queries(
                              c.user_message, c.session_id, result, now, last_sensor_scan),
                         model_invoked |-> invoked,
                         model_result |-> result,
                         could_scan |-> can_scan_now(now, last_sensor_scan)]]
    /\ UNCHANGED <<pending_requests, pending_lock, current_sensor_data, esp8266_commands,
                   last_sensor_scan, now, conversations, environment_changes, db_up,
                   response, scan_event, calls_made, ticks>>

ChatClassify(w) == ChatClassifyWith(w, LifecycleResults)

\* faulty variant: the entry is inserted without taking the lock
ChatAction_unlocked(w) ==
    /\ Quiet
    /\ calls[w].pc = "route"
    /\ calls[w].classification.needs_sensor_data
    /\ LET c == calls[w]
           request_id == RequestId(now, c.user_message)
       IN /\ pending_requests' = DictSet(pending_requests,
                 NewPending(request_id, c.user_message, c.session_id, c.classification, now))
          /\ response' = [handler |-> "chat", code |-> 200,
                          body |-> [status |-> "waiting_for_sensors",
                                    request_id |-> request_id,
                                    user_message |-> c.user_message,
                                    needs_sensor_data |-> TRUE],
                          call |-> c]
    /\ calls' = [calls EXCEPT ![w] = Idle]
    /\ UNCHANGED <<pending_lock, current_sensor_data, esp8266_commands, last_sensor_scan,
                   now, conversations, environment_changes, db_up, scan_event,
                   calls_made, ticks>>

\* lines 717-720 and 731-757: the action route registers a waiting request
ChatAction(w) ==
    /\ Quiet
    /\ calls[w].pc = "route"
    /\ calls[w].classification.needs_sensor_data
    /\ pending_lock = 0
    /\ LET c == calls[w]
           request_id == RequestId(now, c.user_message)
       IN /\ pending_requests' = DictSet(pending_requests,
                 NewPending(request_id, c.user_message, c.session_id, c.classification, now))
          /\ response' = [handler |-> "chat", code |-> 200,
                          body |-> [status |-> "waiting_for_sensors",
                                    request_id |-> request_id,
                                    user_message |-> c.user_message,
                                    needs_sensor_data |-> TRUE],
                          call |-> c]
    /\ calls' = [calls EXCEPT ![w] = Idle]
    /\ UNCHANGED <<pending_lock, current_sensor_data, esp8266_commands, last_sensor_scan,
                   now, conversations, environment_changes, db_up, scan_event,
                   calls_made, ticks>>

\* lines 721-724 and 759-829: the information route answers from history
ChatInfo(w) ==
    /\ Quiet
    /\ calls[w].pc = "route"
    /\ ~calls[w].classification.needs_sensor_data
    /\ \E gen \in GenerationResults :
        LET c == calls[w]
            sql_queries == InfoQueries(c.session_id, c.classification)
            llm_response == InfoGeneration(gen)
            parsed == parse_device_commands(llm_response, c.user_message, esp8266_commands)
            final_response == FinalResponse(llm_response, parsed.device_commands)
        IN /\ esp8266_commands' = parsed.commands
           /\ conversations' = store_conversation(conversations, db_up, c.session_id,
                  "assistant", final_response,
                  [type |-> "info_response", classification |-> c.classification,
                   device_commands |-> parsed.device_commands], None, None)
           /\ response' = [handler |-> "chat", code |-> 200,
                           body |-> [status |-> "completed",
                                     response |-> final_response,
                                     needs_sensor_data |-> FALSE,
                                     message_type |-> c.classification.message_type,
                                     device_commands |-> parsed.device_commands],
                           call |-> [c EXCEPT !.pc = "info"],
                           executed |-> sql_queries,
                           generation |-> gen]
    /\ calls' = [calls EXCEPT ![w] = Idle]
    /\ UNCHANGED <<pending_requests, pending_lock, current_sensor_data, last_sensor_scan,
                   now, environment_changes, db_up, scan_event, calls_made, ticks>>

(***************************************************************************)
(* POST /provide_sensor_data/<request_id> (lines 831-939).                 *)
(***************************************************************************)
\* faulty variant: the sensor cache takes the snapshot before the id is looked up
ProvideBegin_cache_first(w, request_id, sensor_data) ==
    /\ Quiet
    /\ FirstIdle(w)
    /\ calls_made < MaxCalls
    /\ pending_lock = 0
    /\ current_sensor_data' = Update(current_sensor_data, sensor_data)
    /\ IF request_id \notin Ids(pending_requests)
       THEN /\ response' = [handler |-> "provide_sensor_data", code |-> 404,
                            body |-> [error |-> "Invalid request ID", status |-> "error"],
                            call |-> [request_id |-> request_id]]
            /\ UNCHANGED <<pending_lock, conversations, calls, calls_made>>
       ELSE LET request_info == Entry(pending_requests, request_id)
            IN /\ pending_lock' = w
               /\ calls_made' = calls_made + 1
               /\ conversations' = store_conversation(conversations, db_up,
                      request_info.session_id, "user", request_info.user_message,
                      None, sensor_data, Req(request_id))
               /\ calls' = [calls EXCEPT ![w] =
                              [pc |-> "generate", request_id |-> request_id,
                               sensor_data |-> sensor_data]]
               /\ UNCHANGED response
    /\ UNCHANGED <<pending_requests, esp8266_commands, last_sensor_scan, now,
                   environment_changes, db_up, scan_event, ticks>>

\* lines 837-861: lock taken, id looked up, cache updated, user turn logged
ProvideBegin(w, request_id, sensor_data) ==
    /\ Quiet
    /\ FirstIdle(w)
    /\ calls_made < MaxCalls
    /\ pending_lock = 0
    /\ IF request_id \notin Ids(pending_requests)
       THEN /\ response' = [handler |-> "provide_sensor_data", code |-> 404,
                            body |-> [error |-> "Invalid request ID", status |-> "error"],
                            call |-> [request_id |-> request_id]]
            /\ UNCHANGED <<pending_lock, current_sensor_data, conversations, calls,
                           calls_made>>
       ELSE LET request_info == Entry(pending_requests, request_id)
            IN /\ pending_lock' = w
               /\ calls_made' = calls_made + 1
               /\ current_sensor_data' = Update(current_sensor_data, sensor_data)
               /\ conversations' = store_conversation(conversations, db_up,
                      request_info.session_id, "user", request_info.user_message,
                      None, sensor_data, Req(request_id))
               /\ calls' = [calls EXCEPT ![w] =
                              [pc |-> "generate", request_id |-> request_id,
                               sensor_data |-> sensor_data]]
               /\ UNCHANGED response
    /\ UNCHANGED <<pending_requests, esp8266_commands, last_sensor_scan, now,
                   environment_changes, db_up, scan_event, ticks>>

\* faulty variant: a failed generation completes the entry with the apology text
ProvideGenerate_failure_completes(w) ==
    /\ Quiet
    /\ calls[w].pc = "generate"
    /\ pending_lock = w
    /\ \E gen \in GenerationResults :
        LET c == calls[w]
            request_info == Entry(pending_requests, c.request_id)
            activity_context == ActivityTable[request_info.user_message]
        IN IF ActionGenerationRaises(gen)
           THEN /\ response' = [handler |-> "provide_sensor_data", code |-> 500,
                                body |-> [error |-> "generation failed", status |-> "error"],
                                call |-> c, generation |-> gen]
                /\ calls' = [calls EXCEPT ![w] = Idle]
                /\ pending_requests' = DictSet(pending_requests,
                       Completed(request_info, FinalResponse(Apology, <<>>), now))
                /\ UNCHANGED <<esp8266_commands, conversations, environment_changes>>
           ELSE LET llm_response == gen.text
                    parsed == parse_device_commands(llm_response, request_info.user_message,
                                                    esp8266_commands)
                    final_response == FinalResponse(llm_response, parsed.device_commands)
                    changes == ChangesTable[llm_response][c.sensor_data]
                IN /\ esp8266_commands' = parsed.commands
                   /\ environment_changes' = store_environment_changes(environment_changes,
                          db_up, request_info.session_id, Req(c.request_id), changes,
                          activity_context)
                   /\ conversations' = store_conversation(conversations, db_up,
                          request_info.session_id, "assistant", final_response,
                          [device_commands |-> parsed.device_commands], None, Req(c.request_id))
                   /\ pending_requests' = DictSet(pending_requests,
                          Completed(request_info, final_response, now))
                   /\ calls' = [calls EXCEPT ![w] =
                                  [pc |-> "scan_time", request_id |-> c.request_id,
                                   sensor_data |-> c.sensor_data,
                                   final_response |-> final_response,
                                   device_commands |-> parsed.device_commands,
                                   generation |-> gen]]
                   /\ UNCHANGED response
    /\ pending_lock' = 0
    /\ UNCHANGED <<current_sensor_data, last_sensor_scan, now, db_up, scan_event,
                   calls_made, ticks>>

\* lines 863-922 and 937-939: generation inside the lock, then the entry is completed
ProvideGenerate(w) ==
    /\ Quiet
    /\ calls[w].pc = "generate"
    /\ pending_lock = w
    /\ \E gen \in GenerationResults :
        LET c == calls[w]
            request_info == Entry(pending_requests, c.request_id)
            activity_context == ActivityTable[request_info.user_message]
        IN IF ActionGenerationRaises(gen)
           THEN /\ response' = [handler |-> "provide_sensor_data", code |-> 500,
                                body |-> [error |-> "generation failed", status |-> "error"],
                                call |-> c, generation |-> gen]
                /\ calls' = [calls EXCEPT ![w] = Idle]
                /\ UNCHANGED <<pending_requests, esp8266_commands, conversations,
                               environment_changes>>
           ELSE LET llm_response == gen.text
                    parsed == parse_device_commands(llm_response, request_info.user_message,
                                                    esp8266_commands)
                    final_response == FinalResponse(llm_response, parsed.device_commands)
                    changes == ChangesTable[llm_response][c.sensor_data]
                IN /\ esp8266_commands' = parsed.commands
                   /\ environment_changes' = store_environment_changes(environment_changes,
                          db_up, request_info.session_id, Req(c.request_id), changes,
                          activity_context)
                   /\ conversations' = store_conversation(conversations, db_up,
                          request_info.session_id, "assistant", final_response,
                          [device_commands |-> parsed.device_commands], None, Req(c.request_id))
                   /\ pending_requests' = DictSet(pending_requests,
                          Completed(request_info, final_response, now))
                   /\ calls' = [calls EXCEPT ![w] =
                                  [pc |-> "scan_time", request_id |-> c.request_id,
                                   sensor_data |-> c.sensor_data,
                                   final_response |-> final_response,
                                   device_commands |-> parsed.device_commands,
                                   generation |-> gen]]
                   /\ UNCHANGED response
    /\ pending_lock' = 0
    /\ UNCHANGED <<current_sensor_data, last_sensor_scan, now, db_up, scan_event,
                   calls_made, ticks>>

\* lines 924-935: the cooldown is restarted outside the lock, then the reply
ProvideFinish(w) ==
    /\ Quiet
    /\ calls[w].pc = "scan_time"
    /\ last_sensor_scan' = update_scan_time(now)
    /\ scan_event' = [event |-> "completed", at |-> now]
    /\ response' = [handler |-> "provide_sensor_data", code |-> 200,
                    body |-> [status |-> "completed",
                              request_id |-> calls[w].request_id,
                              response |-> calls[w].final_response,
                              device_commands |-> calls[w].device_commands],
                    call |-> calls[w], generation |-> calls[w].generation]
    /\ calls' = [calls EXCEPT ![w] = Idle]
    /\ UNCHANGED <<pending_requests, pending_lock, current_sensor_data, esp8266_commands,
                   now, conversations, environment_changes, db_up, calls_made, ticks>>

(***************************************************************************)
(* Polling and cooldown endpoints.                                         *)
(***************************************************************************)
\* lines 976-1001
CheckStatus(request_id) ==
    /\ Quiet
    /\ pending_lock = 0
    /\ response' =
         IF request_id \notin Ids(pending_requests)
         THEN [handler |-> "check_status", code |-> 404,
               body |-> [error |-> "Invalid request ID", status |-> "error"],
               call |-> [request_id |-> request_id]]
         ELSE LET request_info == Entry(pending_requests, request_id)
              IN IF request_info.status = "completed"
                 THEN [handler |-> "check_status", code |-> 200,
                       body |-> [status |-> "completed",
                                 response |-> request_info.result,
                                 user_message |-> request_info.user_message],
                       call |-> [request_id |-> request_id]]
                 ELSE [handler |-> "check_status", code |-> 200,
                       body |-> [status |-> "waiting_for_sensors",
                                 user_message |-> request_info.user_message],
                       call |-> [request_id |-> request_id]]
    /\ UNCHANGED <<pending_requests, pending_lock, current_sensor_data, esp8266_commands,
                   last_sensor_scan, now, conversations, environment_changes, db_up,
                   calls, scan_event, calls_made, ticks>>

\* faulty variant: no entry is ever offered
get_pending_request_none(table) == [request_id |-> <<>>]

\* faulty variant: the first entry of the table, whatever its status
get_pending_request_first(table) ==
    IF table = <<>> THEN [request_id |-> <<>>]
    ELSE [request_id |-> table[1].request_id, user_message |-> table[1].user_message]

\* lines 1150-1161: the first entry, in table order, that is still waiting
get_pending_request(table) ==
    LET waiting == {i \in DOMAIN table : table[i].status = "waiting_for_sensors"}
    IN IF waiting = {} THEN [request_id |-> <<>>]
       ELSE LET i == CHOOSE k \in waiting : \A j \in waiting : k <= j
            IN [request_id |-> table[i].request_id, user_message |-> table[i].user_message]

GetPendingRequest ==
    /\ Quiet
    /\ pending_lock = 0
    /\ response' = [handler |-> "get_pending_request", code |-> 200,
                    body |-> get_pending_request(pending_requests)]
    /\ UNCHANGED <<pending_requests, pending_lock, current_sensor_data, esp8266_commands,
                   last_sensor_scan, now, conversations, environment_changes, db_up,
                   calls, scan_event, calls_made, ticks>>

\* lines 1223-1229
ForceScan ==
    /\ Quiet
    /\ last_sensor_scan' = ForceScanValue
    /\ scan_event' = [event |-> "reset"]
    /\ response' = [handler |-> "force_scan", code |-> 200,
                    body |-> [status |-> "success"]]
    /\ UNCHANGED <<pending_requests, pending_lock, current_sensor_data, esp8266_commands,
                   now, conversations, environment_changes, db_up, calls,
                   calls_made, ticks>>

(***************************************************************************)
(* The environment: the clock and the relational store.                    *)
(***************************************************************************)
TickSteps == {1, SCAN_COOLDOWN}

Tick ==
    /\ Quiet
    /\ ticks < MaxTicks
    /\ \E d \in TickSteps : now' = now + d
    /\ ticks' = ticks + 1
    /\ UNCHANGED <<pending_requests, pending_lock, current_sensor_data, esp8266_commands,
                   last_sensor_scan, conversations, environment_changes, db_up, calls,
                   response, scan_event, calls_made>>

\* get_db_connection (lines 48-55) stops succeeding: the store becomes unreachable
DbFail ==
    /\ Quiet
    /\ db_up
    /\ db_up' = FALSE
    /\ UNCHANGED <<pending_requests, pending_lock, current_sensor_data, esp8266_commands,
                   last_sensor_scan, now, conversations, environment_changes, calls,
                   response, scan_event, calls_made, ticks>>

\* the client takes the reply
Return ==
    /\ ~Quiet
    /\ response' = NoResponse
    /\ UNCHANGED <<pending_requests, pending_lock, current_sensor_data, esp8266_commands,
                   last_sensor_scan, now, conversations, environment_changes, db_up,
                   calls, scan_event, calls_made, ticks>>

KnownIds == Ids(pending_requests) \cup {UnknownId}

Next ==
    \/ \E w \in Workers, raw \in RawMessages, sid \in Sessions : ChatReceive(w, raw, sid)
    \/ \E w \in Workers : ChatClassify(w)
    \/ \E w \in Workers : ChatAction(w)
    \/ \E w \in Workers : ChatInfo(w)
    \/ \E w \in Workers, rid \in KnownIds, sd \in Snapshots : ProvideBegin(w, rid, sd)
    \/ \E w \in Workers : ProvideGenerate(w)
    \/ \E w \in Workers : ProvideFinish(w)
    \/ \E rid \in KnownIds : CheckStatus(rid)
    \/ GetPendingRequest
    \/ ForceScan
    \/ Tick
    \/ Return

\* The request lifecycle with the relational store reachable throughout.
Spec == Init /\ [][Next]_vars

\* The classifier under every reply of the hosted model: calls are handled one
\* at a time, and the last /chat of a behaviour is classified under every
\* reply of ClassifierResults and for every session of ClassifySessions.
ClassifySessions == {"s1", "s2"}
LastCall == calls_made = MaxCalls

NextClassify ==
    \/ \E raw \in RawMessages :
         \E sid \in (IF calls_made + 1 = MaxCalls THEN ClassifySessions ELSE Sessions) :
            ChatReceive(1, raw, sid)
    \/ ChatClassifyWith(1, IF LastCall THEN ClassifierResults ELSE LifecycleResults)
    \/ ChatAction(1)
    \/ ChatInfo(1)
    \/ \E rid \in KnownIds, sd \in Snapshots : ProvideBegin(1, rid, sd)
    \/ ProvideGenerate(1)
    \/ ProvideFinish(1)
    \/ ForceScan
    \/ Tick
    \/ Return

SpecClassify == Init /\ [][NextClassify]_vars

(***************************************************************************)
(* Device endpoints (lines 1076-1135, 1163-1221, 1231-1245).               *)
(***************************************************************************)
Esp8266Keys == {"rgb_color", "buzzer_action", "buzzer_duration",
                "alarm", "alarm_duration", "alarm_type"}
Esp32Keys == {"oled_text"}

Restrict(d, keys) == [k \in (DOMAIN d) \cap keys |-> d[k]]

\* lines 1076-1083
get_commands_esp32(commands) == Restrict(commands, Esp32Keys)

\* lines 1085-1110: the alarm's duration and type are copied only with the alarm
get_commands_esp8266(commands) ==
    Restrict(commands,
             {"rgb_color", "buzzer_action", "buzzer_duration", "alarm"}
                \cup (IF "alarm" \in DOMAIN commands
                      THEN {"alarm_duration", "alarm_type"} ELSE {}))

\* faulty variant: the keys of the other device class are deleted as well
clear_esp8266_commands_all(commands) == EmptyDict

\* lines 1112-1124
clear_esp8266_commands(commands) == Del(commands, Esp8266Keys)

\* faulty variant: the display text is kept for the next pull
clear_esp32_commands_keep(commands) == commands

\* lines 1126-1135
clear_esp32_commands(commands) == Del(commands, Esp32Keys)

\* lines 543-545: control_buzzer with duration=None; an empty action is falsy
control_buzzer_action(action, commands) ==
    IF action # ""
    THEN [msg |-> <<"Buzzer", action>>,
          commands |-> Put(commands, "buzzer_action", action)]
    ELSE [msg |-> <<"No buzzer action specified">>, commands |-> commands]

\* lines 1197-1203
stop_alarm(commands) == Put(Put(commands, "alarm", FALSE), "buzzer_action", "stop")

\* lines 1231-1245: the body of /scan_status
scan_status(current_time, last_scan) ==
    LET time_since_last_scan ==
            IF last_scan > 0 THEN current_time - last_scan ELSE SCAN_COOLDOWN
        remaining == SCAN_COOLDOWN - time_since_last_scan
    IN [scan_ready |-> can_scan_now(current_time, last_scan),
        cooldown_seconds |-> SCAN_COOLDOWN,
        seconds_since_last_scan |-> time_since_last_scan,
        seconds_until_next_scan |-> IF remaining > 0 THEN remaining ELSE 0,
        last_scan_time |-> last_scan]

\* what the web interface and the devices send
WebColors == {"blue"}
WebBuzzer == { [sent |-> TRUE, duration |-> 3, action |-> ""],
               [sent |-> FALSE, duration |-> 0, action |-> "on"],
               [sent |-> FALSE, duration |-> 0, action |-> ""] }
WebAlarms == { [duration |-> 10, type |-> "urgent"] }
WebTexts == {"Hello World"}

\* a device endpoint answers: the command map after the call, and the reply
DeviceReply(handler, body, commands) ==
    /\ Quiet
    /\ esp8266_commands' = commands
    /\ response' = [handler |-> handler, code |-> 200, body |-> body]
    /\ UNCHANGED <<pending_requests, pending_lock, current_sensor_data, last_sensor_scan,
                   now, conversations, environment_changes, db_up, calls, scan_event,
                   calls_made, ticks>>

\* GET /get_commands/esp32
GetCommandsEsp32 ==
    DeviceReply("get_commands_esp32", get_commands_esp32(esp8266_commands),
                esp8266_commands)

\* faulty variant: the pull consumes what it returns
GetCommandsEsp8266_consume ==
    DeviceReply("get_commands_esp8266", get_commands_esp8266(esp8266_commands),
                clear_esp8266_commands(esp8266_commands))

\* GET /get_commands/esp8266
GetCommandsEsp8266 ==
    DeviceReply("get_commands_esp8266", get_commands_esp8266(esp8266_commands),
                esp8266_commands)

\* POST /clear_commands/esp8266
ClearEsp8266 ==
    DeviceReply("clear_commands_esp8266", [status |-> "success"],
                clear_esp8266_commands(esp8266_commands))

\* POST /clear_commands/esp32
ClearEsp32 ==
    DeviceReply("clear_commands_esp32", [status |-> "success"],
                clear_esp32_commands(esp8266_commands))

\* POST /control_rgb (lines 1163-1168)
ControlRgb(color) ==
    LET r == control_rgb_color(color, esp8266_commands)
    IN DeviceReply("control_rgb", [status |-> "success", message |-> r.msg], r.commands)

\* POST /control_buzzer (lines 1170-1181): `sent` tells whether the form
\* carries a duration
ControlBuzzerWeb(form) ==
    LET r == IF form.sent
             THEN control_buzzer(form.duration, esp8266_commands)
             ELSE control_buzzer_action(form.action, esp8266_commands)
    IN DeviceReply("control_buzzer", [status |-> "success", message |-> r.msg], r.commands)

\* POST /set_alarm (lines 1183-1195)
SetAlarmEndpoint(data) ==
    LET r == set_alarm(data.duration, data.type, esp8266_commands)
    IN DeviceReply("set_alarm", [status |-> "success", message |-> r.msg], r.commands)

\* POST /stop_alarm
StopAlarm ==
    DeviceReply("stop_alarm", [status |-> "success"], stop_alarm(esp8266_commands))

\* POST /set_oled (lines 1205-1212)
SetOled(text) ==
    LET r == set_oled_display(text, esp8266_commands)
    IN DeviceReply("set_oled", [status |-> "success", message |-> r.msg], r.commands)

\* GET /scan_status
ScanStatus ==
    DeviceReply("scan_status", scan_status(now, last_sensor_scan), esp8266_commands)

\* GET /current_sensor_data (lines 1214-1221)
CurrentSensorData ==
    DeviceReply("current_sensor_data",
                [status |-> "success", sensor_data |-> current_sensor_data],
                esp8266_commands)

\* The handlers of the request lifecycle on concurrent worker threads, with
\* the clock standing still and the cooldown left alone.
NextConcurrent ==
    \/ \E w \in Workers, raw \in RawMessages, sid \in Sessions : ChatReceive(w, raw, sid)
    \/ \E w \in Workers : ChatClassify(w)
    \/ \E w \in Workers : ChatAction(w)
    \/ \E w \in Workers : ChatInfo(w)
    \/ \E w \in Workers, rid \in KnownIds, sd \in Snapshots : ProvideBegin(w, rid, sd)
    \/ \E w \in Workers : ProvideGenerate(w)
    \/ \E w \in Workers : ProvideFinish(w)
    \/ \E rid \in KnownIds : CheckStatus(rid)
    \/ GetPendingRequest
    \/ Return

SpecConcurrent == Init /\ [][NextConcurrent]_vars

\* The same handlers, with a store that can become unreachable at any moment.
NextStore == NextConcurrent \/ DbFail
SpecStore == Init /\ [][NextStore]_vars

\* The device endpoints next to a short request lifecycle on one worker thread.
MaxDeviceCalls == 2    \* accepted /chat and /provide_sensor_data calls beside the devices

NextDevices ==
    \/ /\ calls_made < MaxDeviceCalls
       /\ \E raw \in RawMessages, sid \in Sessions : ChatReceive(1, raw, sid)
    \/ ChatClassify(1)
    \/ ChatAction(1)
    \/ ChatInfo(1)
    \/ /\ calls_made < MaxDeviceCalls
       /\ \E rid \in KnownIds, sd \in Snapshots : ProvideBegin(1, rid, sd)
    \/ ProvideGenerate(1)
    \/ ProvideFinish(1)
    \/ \E rid \in KnownIds : CheckStatus(rid)
    \/ GetPendingRequest
    \/ GetCommandsEsp32
    \/ GetCommandsEsp8266
    \/ ClearEsp8266
    \/ ClearEsp32
    \/ \E color \in WebColors : ControlRgb(color)
    \/ \E form \in WebBuzzer : ControlBuzzerWeb(form)
    \/ \E data \in WebAlarms : SetAlarmEndpoint(data)
    \/ StopAlarm
    \/ \E text \in WebTexts : SetOled(text)
    \/ ScanStatus
    \/ CurrentSensorData
    \/ Return

SpecDevices == Init /\ [][NextDevices]_vars

(***************************************************************************)
(* Query execution (lines 287-360), applied to lists of templates.         *)
(***************************************************************************)
MaxTemplates == 2      \* templates in one list handed to execute_sql_queries

\* the text of the two fixed templates, as written at lines 134-143 and 148-158
ConversationsQueryText ==
   <<
      "S","E","L","E","C","T"," ","\n"," "," "," "," "," "," "," "," "," "," "," "," ",
      " "," "," "," ","m","e","s","s","a","g","e","_","t","y","p","e",",","\n"," "," ",
      " "," "," "," "," "," "," "," "," "," "," "," "," "," ","c","o","n","t","e","n",
      "t",",","\n"," "," "," "," "," "," "," "," "," "," "," "," "," "," "," "," ","m",
      "e","t","a","d","a","t","a",",","\n"," "," "," "," "," "," "," "," "," "," "," ",
      " "," "," "," "," ","s","e","n","s","o","r","_","d","a","t","a",",","\n"," "," ",
      " "," "," "," "," "," "," "," "," "," "," "," "," "," ","c","r","e","a","t","e",
      "d","_","a","t","\n"," "," "," "," "," "," "," "," "," "," "," "," ","F","R","O",
      "M"," ","c","o","n","v","e","r","s","a","t","i","o","n","s","\n"," "," "," "," ",
      " "," "," "," "," "," "," "," ","W","H","E","R","E"," ","s","e","s","s","i","o",
      "n","_","i","d"," ","="," ","%","s","\n"," "," "," "," "," "," "," "," "," "," ",
      " "," ","O","R","D","E","R"," ","B","Y"," ","c","r","e","a","t","e","d","_","a",
      "t"," ","D","E","S","C","\n"," "," "," "," "," "," "," "," "," "," "," "," ","L",
      "I","M","I","T"," ","2","0"
   >>

EnvironmentChangesQueryText ==
   <<
      "S","E","L","E","C","T"," ","\n"," "," "," "," "," "," "," "," "," "," "," "," ",
      " "," "," "," ","f","a","c","t","o","r",",","\n"," "," "," "," "," "," "," "," ",
      " "," "," "," "," "," "," "," ","p","r","e","v","i","o","u","s","_","v","a","l",
      "u","e",",","\n"," "," "," "," "," "," "," "," "," "," "," "," "," "," "," "," ",
      "n","e","w","_","v","a","l","u","e",",","\n"," "," "," "," "," "," "," "," "," ",
      " "," "," "," "," "," "," ","r","e","a","s","o","n","i","n","g",",","\n"," "," ",
      " "," "," "," "," "," "," "," "," "," "," "," "," "," ","a","c","t","i","v","i",
      "t","y","_","c","o","n","t","e","x","t",",","\n"," "," "," "," "," "," "," "," ",
      " "," "," "," "," "," "," "," ","c","r","e","a","t","e","d","_","a","t","\n"," ",
      " "," "," "," "," "," "," "," "," "," "," ","F","R","O","M"," ","e","n","v","i",
      "r","o","n","m","e","n","t","_","c","h","a","n","g","e","s","\n"," "," "," "," ",
      " "," "," "," "," "," "," "," ","W","H","E","R","E"," ","s","e","s","s","i","o",
      "n","_","i","d"," ","="," ","%","s","\n"," "," "," "," "," "," "," "," "," "," ",
      " "," ","O","R","D","E","R"," ","B","Y"," ","c","r","e","a","t","e","d","_","a",
      "t"," ","D","E","S","C","\n"," "," "," "," "," "," "," "," "," "," "," "," ","L",
      "I","M","I","T"," ","1","5"
   >>

\* str.count: occurrences of kw from position i on, left to right, not overlapping
RECURSIVE CountFrom(_, _, _)
CountFrom(text, kw, i) ==
    LET found == {k \in i .. (Len(text) - Len(kw) + 1) :
                     \A j \in 1 .. Len(kw) : text[k + j - 1] = kw[j]}
    IN IF found = {} THEN 0
       ELSE 1 + CountFrom(text, kw, (CHOOSE k \in found : \A m \in found : k <= m) + Len(kw))

\* line 294
allowed_tables ==
    { <<"c","o","n","v","e","r","s","a","t","i","o","n","s">>,
      <<"e","n","v","i","r","o","n","m","e","n","t","_","c","h","a","n","g","e","s">> }

\* faulty variant: only a name with a space on either side counts
ReferencesAllowed_spaced(q_lower) ==
    \E tbl \in allowed_tables :
        Contains(<<" ">> \o q_lower \o <<" ">>, <<" ">> \o tbl \o <<" ">>)

\* line 324
ReferencesAllowed(q_lower) ==
    \E tbl \in allowed_tables :
        \/ Contains(<<" ">> \o q_lower \o <<" ">>, <<" ">> \o tbl \o <<" ">>)
        \/ Contains(q_lower, <<"f","r","o","m"," ">> \o tbl)
        \/ Contains(q_lower, <<"j","o","i","n"," ">> \o tbl)

\* lines 306-329: the Error raised for a template, "" when it passes every check
Violation(query_info) ==
    LET query == query_info.query
        q_lower == lower(query)
    IN IF strip(query) = <<>> THEN "Empty or invalid query provided"
       ELSE IF Contains(query, <<"?">>) THEN "Unsafe placeholder '?' detected"
       ELSE IF CountFrom(query, <<"%","s">>, 1) # Len(query_info.parameters)
            THEN "Parameter count mismatch"
       ELSE IF ~ReferencesAllowed(q_lower) THEN "Query references disallowed table(s)"
       ELSE IF \/ CountFrom(q_lower, <<";">>, 1) > 1
               \/ Contains(q_lower, <<"-","-">>)
               \/ Contains(q_lower, <<"/">>)
            THEN "Query contains suspicious characters"
       ELSE ""

\* the templates the lists are made of
QSelectAll == <<"S","E","L","E","C","T"," ","*"," ","F","R","O","M"," ","c","o","n","v","e","r","s","a","t","i","o","n","s">>
QTwoPlaceholders ==
   <<
      "S","E","L","E","C","T"," ","*"," ","F","R","O","M"," ","C","O","N","V","E","R",
      "S","A","T","I","O","N","S"," ","W","H","E","R","E"," ","s","e","s","s","i","o",
      "n","_","i","d"," ","="," ","%","s"," ","A","N","D"," ","r","e","q","u","e","s",
      "t","_","i","d"," ","="," ","%","s"
   >>
QUsers == <<"S","E","L","E","C","T"," ","*"," ","F","R","O","M"," ","u","s","e","r","s"," ","W","H","E","R","E"," ","i","d"," ","="," ","%","s">>
QQuestionMark ==
   <<
      "S","E","L","E","C","T"," ","*"," ","F","R","O","M"," ","c","o","n","v","e","r",
      "s","a","t","i","o","n","s"," ","W","H","E","R","E"," ","s","e","s","s","i","o",
      "n","_","i","d"," ","="," ","?"
   >>
QPrefixed ==
   <<
      "S","E","L","E","C","T"," ","*"," ","F","R","O","M"," ","c","o","n","v","e","r",
      "s","a","t","i","o","n","s","_","o","l","d"," ","W","H","E","R","E"," ","s","e",
      "s","s","i","o","n","_","i","d"," ","="," ","%","s"
   >>
QJoined ==
   <<
      "S","E","L","E","C","T"," ","*"," ","F","R","O","M"," ","c","o","n","v","e","r",
      "s","a","t","i","o","n","s"," ","J","O","I","N"," ","u","s","e","r","s"," ","O",
      "N"," ","u","s","e","r","s",".","i","d"," ","="," ","%","s"
   >>
QComment == <<"D","E","L","E","T","E"," ","F","R","O","M"," ","c","o","n","v","e","r","s","a","t","i","o","n","s",";"," ","-","-"," ","%","s">>

QueryInfos ==
    { [purpose |-> get_predefined_queries(sid)[1].purpose,
       query |-> ConversationsQueryText, parameters |-> <<sid>>] : sid \in ClassifySessions }
    \cup
    { [purpose |-> get_predefined_queries(sid)[2].purpose,
       query |-> EnvironmentChangesQueryText, parameters |-> <<sid>>] : sid \in ClassifySessions }
    \cup
    { [purpose |-> "all", query |-> QSelectAll, parameters |-> <<>>],
      [purpose |-> "all", query |-> QSelectAll, parameters |-> <<"s1">>],
      [purpose |-> "two", query |-> QTwoPlaceholders, parameters |-> <<"s1">>],
      [purpose |-> "users", query |-> QUsers, parameters |-> <<"s1">>],
      [purpose |-> "empty", query |-> <<>>, parameters |-> <<>>],
      [purpose |-> "qmark", query |-> QQuestionMark, parameters |-> <<>>],
      [purpose |-> "prefixed", query |-> QPrefixed, parameters |-> <<"s1">>],
      [purpose |-> "joined", query |-> QJoined, parameters |-> <<"s1">>],
      [purpose |-> "comment", query |-> QComment, parameters |-> <<"s1">>] }

ViolationTable == [q \in QueryInfos |-> Violation(q)]

\* f'query_{i+1}' for the index i of enumerate
QueryLabel == <<"query_1", "query_2", "query_3", "query_4">>

\* faulty variant: the first template that raises ends the loop
execute_sql_queries_abort(sql_queries, up) ==
    IF ~up
    THEN [k \in {"error"} |-> "Database connection failed"]
    ELSE LET bad == {j \in DOMAIN sql_queries : ViolationTable[sql_queries[j]] # ""}
             last == IF bad = {} THEN Len(sql_queries)
                     ELSE CHOOSE j \in bad : \A m \in bad : j <= m
         IN [k \in {QueryLabel[i] : i \in 1 .. last} |->
               LET i == CHOOSE j \in 1 .. last : QueryLabel[j] = k
                   query_info == sql_queries[i]
               IN IF ViolationTable[query_info] = ""
                  THEN [purpose |-> query_info.purpose,
                        data |-> [executed |-> query_info.query,
                                  with |-> query_info.parameters]]
                  ELSE [purpose |-> query_info.purpose,
                        error |-> ViolationTable[query_info],
                        data |-> <<>>]]

\* lines 287-360: the dict returned, a function on its keys. A template that
\* passes is handed to cursor.execute (lines 334-341): `data` stands for the
\* rows fetched for this statement and these parameters. A template that
\* raises gets the entry of lines 344-350.
execute_sql_queries(sql_queries, up) ==
    IF ~up
    THEN [k \in {"error"} |-> "Database connection failed"]
    ELSE [k \in {QueryLabel[i] : i \in DOMAIN sql_queries} |->
            LET i == CHOOSE j \in DOMAIN sql_queries : QueryLabel[j] = k
                query_info == sql_queries[i]
            IN IF ViolationTable[query_info] = ""
               THEN [purpose |-> query_info.purpose,
                     data |-> [executed |-> query_info.query,
                               with |-> query_info.parameters]]
               ELSE [purpose |-> query_info.purpose,
                     error |-> ViolationTable[query_info],
                     data |-> <<>>]]

\* every list of at most MaxTemplates templates
QueryLists == UNION { [1 .. n -> QueryInfos] : n \in 0 .. MaxTemplates }

\* a call of execute_sql_queries is about to run on worker 1
InitQueries ==
    /\ pending_requests = <<>>
    /\ pending_lock = 0
    /\ current_sensor_data = [temperature |-> 0, humidity |-> 0, light |-> 0]
    /\ esp8266_commands = EmptyDict
    /\ last_sensor_scan = 0
    /\ now = StartTime
    /\ conversations = <<>>
    /\ environment_changes = <<>>
    /\ db_up \in BOOLEAN
    /\ \E sql_queries \in QueryLists :
         calls = [w \in Workers |->
                    IF w = 1 THEN [pc |-> "execute_sql_queries", sql_queries |-> sql_queries]
                    ELSE Idle]
    /\ response = NoResponse
    /\ scan_event = [event |-> "reset"]
    /\ calls_made = 0
    /\ ticks = 0

ExecuteSqlQueries ==
    /\ Quiet
    /\ calls[1].pc = "execute_sql_queries"
    /\ response' = [handler |-> "execute_sql_queries",
                    body |-> execute_sql_queries(calls[1].sql_queries, db_up),
                    call |-> calls[1],
                    up |-> db_up]
    /\ calls' = [calls EXCEPT ![1] = Idle]
    /\ UNCHANGED <<pending_requests, pending_lock, current_sensor_data, esp8266_commands,
                   last_sensor_scan, now, conversations, environment_changes, db_up,
                   scan_event, calls_made, ticks>>

NextQueries == ExecuteSqlQueries \/ Return

SpecQueries == InitQueries /\ [][NextQueries]_vars

(***************************************************************************)
(* Intent extraction applied to the texts of IntentInputs.                  *)
(***************************************************************************)
\* parse_device_commands is about to run on worker 1
InitIntent ==
    /\ pending_requests = <<>>
    /\ pending_lock = 0
    /\ current_sensor_data = [temperature |-> 0, humidity |-> 0, light |-> 0]
    /\ esp8266_commands \in {EmptyDict, OldCommands}
    /\ last_sensor_scan = 0
    /\ now = StartTime
    /\ conversations = <<>>
    /\ environment_changes = <<>>
    /\ db_up = TRUE
    /\ \E input \in IntentInputs :
         calls = [w \in Workers |->
                    IF w = 1 THEN [pc |-> "parse_device_commands",
                                   user_message |-> input[1], llm_response |-> input[2]]
                    ELSE Idle]
    /\ response = NoResponse
    /\ scan_event = [event |-> "reset"]
    /\ calls_made = 0
    /\ ticks = 0

\* lines 564-616: the call, its returned list and the command map it leaves
ParseDeviceCommands ==
    /\ Quiet
    /\ calls[1].pc = "parse_device_commands"
    /\ LET parsed == RunCalls(IntentCallsTable[<<calls[1].user_message, calls[1].llm_response>>],
                              [device_commands |-> <<>>, commands |-> esp8266_commands])
       IN /\ esp8266_commands' = parsed.commands
          /\ response' = [handler |-> "parse_device_commands",
                          body |-> parsed.device_commands,
                          activity |-> IntentActivityTable[calls[1].user_message],
                          call |-> calls[1],
                          before |-> esp8266_commands]
    /\ calls' = [calls EXCEPT ![1] = Idle]
    /\ UNCHANGED <<pending_requests, pending_lock, current_sensor_data, last_sensor_scan,
                   now, conversations, environment_changes, db_up, scan_event,
                   calls_made, ticks>>

NextIntent == ParseDeviceCommands \/ Return

SpecIntent == InitIntent /\ [][NextIntent]_vars

(***************************************************************************)
(* The hardware client: it polls /get_pending_request and posts a snapshot *)
(* to /provide_sensor_data for the id it was given, one call at a time.    *)
(***************************************************************************)
\* the client has a poll answer in hand or a delivery under way
ClientBusy == \E w \in Workers : calls[w].pc \in {"polled", "generate", "scan_time"}

\* lines 1150-1161, asked by the client: a non-empty id is the one it posts next
ClientPoll(w) ==
    /\ Quiet
    /\ FirstIdle(w)
    /\ ~ClientBusy
    /\ pending_lock = 0
    /\ LET found == get_pending_request(pending_requests)
       IN /\ response' = [handler |-> "get_pending_request", code |-> 200, body |-> found]
          /\ calls' = IF found.request_id = <<>> THEN calls
                      ELSE [calls EXCEPT ![w] =
                              [pc |-> "polled", request_id |-> found.request_id]]
    /\ UNCHANGED <<pending_requests, pending_lock, current_sensor_data, esp8266_commands,
                   last_sensor_scan, now, conversations, environment_changes, db_up,
                   scan_event, calls_made, ticks>>

\* lines 837-861, for the id the client was given
ClientDeliver(w, sensor_data) ==
    /\ Quiet
    /\ calls[w].pc = "polled"
    /\ pending_lock = 0
    /\ LET request_id == calls[w].request_id
       IN IF request_id \notin Ids(pending_requests)
          THEN /\ response' = [handler |-> "provide_sensor_data", code |-> 404,
                               body |-> [error |-> "Invalid request ID", status |-> "error"],
                               call |-> [request_id |-> request_id]]
               /\ calls' = [calls EXCEPT ![w] = Idle]
               /\ UNCHANGED <<pending_lock, current_sensor_data, conversations, calls_made>>
          ELSE LET request_info == Entry(pending_requests, request_id)
               IN /\ pending_lock' = w
                  /\ current_sensor_data' = Update(current_sensor_data, sensor_data)
                  /\ conversations' = store_conversation(conversations, db_up,
                         request_info.session_id, "user", request_info.user_message,
                         None, sensor_data, Req(request_id))
                  /\ calls' = [calls EXCEPT ![w] =
                                 [pc |-> "generate", request_id |-> request_id,
                                  sensor_data |-> sensor_data]]
                  /\ calls_made' = calls_made + 1
                  /\ UNCHANGED response
    /\ UNCHANGED <<pending_requests, esp8266_commands, last_sensor_scan, now,
                   environment_changes, db_up, scan_event, ticks>>

\* lines 706-715 with the classification model out of reach: a message goes
\* the action route by the fallback, a scan keyword by the cooldown
ChatClassifyUnreached(w) == ChatClassifyWith(w, {[kind |-> "error"]})

\* the generation call of a delivery succeeds
GenerateSucceeds(w) == ProvideGenerate(w) /\ calls'[w].pc = "scan_time"

\* a /chat that is taken up, one at a time beside the client: a refused one
\* leaves nothing behind but its reply
ChatAccepted(w, raw, session_id) ==
    /\ StripTable[raw] # <<>>
    /\ \A v \in Workers : calls[v].pc \notin {"classify", "route"}
    /\ ChatReceive(w, raw, session_id)

NextLive ==
    \/ \E w \in Workers, raw \in RawMessages, sid \in Sessions : ChatAccepted(w, raw, sid)
    \/ \E w \in Workers : ChatClassifyUnreached(w)
    \/ \E w \in Workers : ChatAction(w)
    \/ \E w \in Workers : ChatInfo(w)
    \/ \E w \in Workers : ClientPoll(w)
    \/ \E w \in Workers, sd \in Snapshots : ClientDeliver(w, sd)
    \/ \E w \in Workers : GenerateSucceeds(w)
    \/ \E w \in Workers : ProvideFinish(w)
    \/ Return

\* The handler thread of a call that has started keeps running, replies are
\* taken, and the client keeps polling and keeps posting for the id it holds.
\* No fairness on ChatAccepted: users send finitely many messages.
FairLive ==
    /\ WF_vars(\E w \in Workers : ChatClassifyUnreached(w))
    /\ WF_vars(\E w \in Workers : ChatAction(w))
    /\ WF_vars(\E w \in Workers : ChatInfo(w))
    /\ WF_vars(\E w \in Workers : ClientPoll(w))
    /\ WF_vars(\E w \in Workers, sd \in Snapshots : ClientDeliver(w, sd))
    /\ WF_vars(\E w \in Workers : GenerateSucceeds(w))
    /\ WF_vars(\E w \in Workers : ProvideFinish(w))
    /\ WF_vars(Return)

SpecLive == Init /\ [][NextLive]_vars /\ FairLive

(***************************************************************************)
(* The devices: each pulls its commands with /get_commands/<class> and     *)
(* then posts /clear_commands/<class>, while the web interface sets        *)
(* commands.                                                               *)
(***************************************************************************)
DeviceClasses == {"esp8266", "esp32"}

ClassKeys(class) == IF class = "esp8266" THEN Esp8266Keys ELSE Esp32Keys

\* lines 1076-1110: the device of this class pulls; what it was sent stays
\* with it until it has posted the clear
DevicePull(w, class) ==
    /\ Quiet
    /\ FirstIdle(w)
    /\ \A v \in Workers : ~(calls[v].pc = "pulled" /\ calls[v].class = class)
    /\ LET sent == IF class = "esp8266" THEN get_commands_esp8266(esp8266_commands)
                   ELSE get_commands_esp32(esp8266_commands)
       IN /\ response' = [handler |-> "get_commands_" \o class, code |-> 200, body |-> sent]
          /\ calls' = [calls EXCEPT ![w] = [pc |-> "pulled", class |-> class, sent |-> sent]]
    /\ UNCHANGED <<pending_requests, pending_lock, current_sensor_data, esp8266_commands,
                   last_sensor_scan, now, conversations, environment_changes, db_up,
                   scan_event, calls_made, ticks>>

\* lines 1112-1135: the device that has pulled posts the clear of its class
DeviceClear(w) ==
    /\ Quiet
    /\ calls[w].pc = "pulled"
    /\ esp8266_commands' = IF calls[w].class = "esp8266"
                           THEN clear_esp8266_commands(esp8266_commands)
                           ELSE clear_esp32_commands(esp8266_commands)
    /\ response' = [handler |-> "clear_commands_" \o calls[w].class, code |-> 200,
                    body |-> [status |-> "success"]]
    /\ calls' = [calls EXCEPT ![w] = Idle]
    /\ UNCHANGED <<pending_requests, pending_lock, current_sensor_data, last_sensor_scan,
                   now, conversations, environment_changes, db_up, scan_event,
                   calls_made, ticks>>

NextPull ==
    \/ \E w \in Workers, class \in DeviceClasses : DevicePull(w, class)
    \/ \E w \in Workers : DeviceClear(w)
    \/ \E color \in WebColors : ControlRgb(color)
    \/ \E form \in WebBuzzer : ControlBuzzerWeb(form)
    \/ \E data \in WebAlarms : SetAlarmEndpoint(data)
    \/ StopAlarm
    \/ \E text \in WebTexts : SetOled(text)
    \/ Return

SpecPull == Init /\ [][NextPull]_vars

(***************************************************************************)
(* Properties.                                                             *)
(***************************************************************************)
StatusOf(table, request_id) == Entry(table, request_id).status

\* the responses that successful deliveries for request_id have produced,
\* read from the assistant turns the deliveries logged
Deliveries(request_id) ==
    {conversations[i].content : i \in
        {k \in DOMAIN conversations :
            /\ conversations[k].message_type = "assistant"
            /\ conversations[k].request_id = Req(request_id)}}

\* a delivery for request_id has begun and has not answered yet
InDelivery(request_id) ==
    \E w \in Workers : /\ calls[w].pc \in {"generate", "scan_time"}
                       /\ calls[w].request_id = request_id

\* the messages of the /chat calls whose request id is request_id, read from
\* the user turns those calls logged
Asked(request_id) ==
    {conversations[i].content : i \in
        {k \in DOMAIN conversations :
            /\ conversations[k].message_type = "user"
            /\ conversations[k].request_id = None
            /\ \E t \in StartTime .. now :
                  RequestId(t, conversations[k].content) = request_id}}

\* a worker took the step from pc `from` to pc `to`
Stepped(w, from, to) == calls[w].pc = from /\ calls'[w].pc = to

\* the cooldown permits a scan: none has completed since process start or
\* since the last /force_scan, or the last completion is a cooldown away
CooldownElapsed ==
    \/ scan_event.event = "reset"
    \/ /\ scan_event.event = "completed"
       /\ now - scan_event.at >= SCAN_COOLDOWN

\* C1: once the entry of a request id is completed, no later state has that
\* id with status waiting_for_sensors.
C1_StatusMonotone ==
    [][\A id \in Ids(pending_requests) :
          StatusOf(pending_requests, id) = "completed"
             => /\ id \in Ids(pending_requests')
                /\ StatusOf(pending_requests', id) = "completed"]_vars

\* C2: /check_status/r answers with the message of the /chat that created r;
\* it answers waiting_for_sensors while no delivery for r has succeeded, and
\* completed with the response a delivery produced once one has answered.
C2_StatusReflectsDelivery ==
    (/\ response.handler = "check_status"
     /\ response.code = 200
     /\ ~InDelivery(response.call.request_id)) =>
        LET produced == Deliveries(response.call.request_id)
        IN /\ response.body.user_message \in Asked(response.call.request_id)
           /\ IF produced = {}
              THEN response.body.status = "waiting_for_sensors"
              ELSE /\ response.body.status = "completed"
                   /\ response.body.response \in produced

\* C3: a handler whose generation call failed still answers 200 with the
\* apology text as the response.
C3_GenerationFailureAbsorbed ==
    (/\ response.handler \in {"chat", "provide_sensor_data"}
     /\ "generation" \in DOMAIN response
     /\ ~response.generation.ok)
        => /\ response.code = 200
           /\ response.body.response.text = Apology

\* C4: a classification with needs_sensor_data=false carries exactly the two
\* predefined templates for its session; one with needs_sensor_data=true
\* carries no query.
C4_QueriesFixedByDecision ==
    \A w \in Workers :
        calls[w].pc = "route" =>
            LET c == calls[w].classification
            IN IF c.needs_sensor_data
               THEN c.sql_queries = <<>>
               ELSE /\ Len(c.sql_queries) = 2
                    /\ c.sql_queries[1].query = ConversationsQuery
                    /\ c.sql_queries[2].query = EnvironmentChangesQuery
                    /\ \A i \in 1 .. 2 :
                          c.sql_queries[i].parameters = <<calls[w].session_id>>

\* the classifier model answered "no sensor data" and put query text in its reply
C4_Witness ==
    \E w \in Workers :
        /\ calls[w].pc = "route"
        /\ calls[w].model_invoked
        /\ calls[w].model_result.kind = "choices"
        /\ calls[w].model_result.content # None
        /\ calls[w].model_result.content.value.t = "dict"
        /\ "sql_queries" \in DOMAIN calls[w].model_result.content.value.o
        /\ ~calls[w].classification.needs_sensor_data

\* C5: the queries the information path hands to the executor are the two
\* predefined templates with the session id as only parameter, whatever the
\* classifier model replied.
C5_ExecutedQueriesDependOnSessionOnly ==
    (response.handler = "chat" /\ "executed" \in DOMAIN response) =>
        /\ Len(response.executed) = 2
        /\ response.executed[1].query = ConversationsQuery
        /\ response.executed[2].query = EnvironmentChangesQuery
        /\ \A i \in 1 .. 2 :
              response.executed[i].parameters = <<response.call.session_id>>

\* an information-path reply for session s2 whose classification came from a
\* model reply that carried query text
C5_Witness ==
    /\ response.handler = "chat"
    /\ "executed" \in DOMAIN response
    /\ response.call.session_id = "s2"
    /\ response.call.model_invoked
    /\ response.call.model_result.kind = "choices"
    /\ response.call.model_result.content # None
    /\ response.call.model_result.content.value.t = "dict"
    /\ "sql_queries" \in DOMAIN response.call.model_result.content.value.o

\* C6: a message with an explicit scan keyword is classified without the hosted
\* model being called, in and out of the cooldown.
C6_ExplicitScanSkipsModel ==
    \A w \in Workers :
        (calls[w].pc = "route" /\ ExplicitScanTable[calls[w].user_message])
            => /\ ~calls[w].model_invoked
               /\ calls[w].model_result = NoCall

\* an explicit scan request classified during the cooldown
C6_Witness ==
    \E w \in Workers :
        /\ calls[w].pc = "route"
        /\ ExplicitScanTable[calls[w].user_message]
        /\ ~calls[w].could_scan

\* C7: for a message with an explicit scan keyword the decision follows the
\* cooldown alone: elapsed gives needs_sensor_data=true, real_time_scan and a
\* pending request; not elapsed gives needs_sensor_data=false,
\* cached_data_response, the fixed queries and no pending request.
C7_ExplicitScanFollowsCooldown ==
    [][\A w \in Workers :
          /\ (Stepped(w, "classify", "route") /\ ExplicitScanTable[calls[w].user_message])
                => LET c == calls'[w].classification
                   IN IF now - last_sensor_scan >= SCAN_COOLDOWN
                      THEN /\ c.needs_sensor_data
                           /\ c.message_type = JStr("real_time_scan")
                           /\ c.sql_queries = <<>>
                      ELSE /\ ~c.needs_sensor_data
                           /\ c.message_type = JStr("cached_data_response")
                           /\ c.sql_queries = get_predefined_queries(calls[w].session_id)
          /\ (Stepped(w, "route", "idle") /\ ExplicitScanTable[calls[w].user_message])
                => IF calls[w].could_scan
                   THEN /\ response'.body.status = "waiting_for_sensors"
                        /\ response'.body.request_id \in Ids(pending_requests')
                        /\ Entry(pending_requests', response'.body.request_id).status
                              = "waiting_for_sensors"
                        /\ Entry(pending_requests', response'.body.request_id).user_message
                              = calls[w].user_message
                   ELSE /\ response'.body.status = "completed"
                        /\ pending_requests' = pending_requests]_vars

\* an explicit scan request, classified during the cooldown, answered from history
C7_Witness ==
    /\ response.handler = "chat"
    /\ response.code = 200
    /\ ExplicitScanTable[response.call.user_message]
    /\ ~response.call.could_scan
    /\ response.body.status = "completed"

\* C8: when the classifier call fails, or its reply holds no JSON object with
\* non-null needs_sensor_data, message_type and reasoning, the classification
\* is needs_sensor_data=true.
C8_MalformedReplyFallsBackToScan ==
    \A w \in Workers :
        (/\ calls[w].pc = "route"
         /\ calls[w].model_invoked
         /\ ~WellFormed(calls[w].model_result))
            => calls[w].classification.needs_sensor_data

\* C9: can_scan_now is true at process start and after /force_scan; after a
\* successful delivery it is false until the cooldown has elapsed since that
\* delivery and true from then on.
C9_CooldownAfterCompletion ==
    can_scan_now(now, last_sensor_scan) <=> CooldownElapsed

\* a delivery has succeeded and exactly the cooldown has elapsed since
C9_Witness ==
    /\ scan_event.event = "completed"
    /\ now - scan_event.at = SCAN_COOLDOWN
    /\ can_scan_now(now, last_sensor_scan)

\* C10: a pending request is created, and a sensor delivery is taken up, only
\* when the cooldown permits a scan.
C10_ScansRespectCooldown ==
    [][\A w \in Workers :
          (\/ /\ Stepped(w, "route", "idle")
              /\ calls[w].classification.needs_sensor_data
           \/ Stepped(w, "idle", "generate"))
             => CooldownElapsed]_vars

\* the positions of the table whose entry is still waiting for sensor data
Waiting(table) == {i \in DOMAIN table : table[i].status = "waiting_for_sensors"}

\* C11: /get_pending_request answers with an empty request id exactly when the
\* table is empty or holds completed entries only; otherwise it answers with
\* the id and the message of an entry that is waiting_for_sensors.
C11_PendingPollReturnsWaiting ==
    response.handler = "get_pending_request" =>
        IF Waiting(pending_requests) = {}
        THEN response.body = [request_id |-> <<>>]
        ELSE \E i \in Waiting(pending_requests) :
                response.body = [request_id |-> pending_requests[i].request_id,
                                 user_message |-> pending_requests[i].user_message]

\* the poll passes over a completed entry and answers with a waiting one
C11_Witness ==
    /\ response.handler = "get_pending_request"
    /\ response.body.request_id # <<>>
    /\ Len(pending_requests) = 2
    /\ pending_requests[1].status = "completed"
    /\ response.body.request_id = pending_requests[2].request_id

\* the shared state of the program: the table, the sensor cache, the cooldown
\* timestamp, the command map and the two logs
shared == <<pending_requests, current_sensor_data, last_sensor_scan, esp8266_commands,
            conversations, environment_changes>>

\* C12: /provide_sensor_data/r and /check_status/r answer 404 when r is not in
\* the pending table, and only then; the 404 leaves the shared state as it
\* was and starts no generation.
C12_UnknownIdHasNoEffect ==
    [][/\ (/\ response'.handler \in {"provide_sensor_data", "check_status"}
           /\ response # response'
           /\ response'.code = 404)
            => /\ response'.call.request_id \notin Ids(pending_requests)
               /\ UNCHANGED shared
               /\ UNCHANGED <<calls, pending_lock>>
       /\ \A w \in Workers :
            Stepped(w, "idle", "generate")
                => calls'[w].request_id \in Ids(pending_requests)
       /\ (/\ response'.handler = "check_status"
           /\ response # response'
           /\ response'.code = 200)
            => response'.call.request_id \in Ids(pending_requests)]_vars

\* a delivery for an unknown id is refused while a request is waiting
C12_Witness ==
    /\ response.handler = "provide_sensor_data"
    /\ response.code = 404
    /\ Waiting(pending_requests) # {}
    /\ current_sensor_data # [temperature |-> 30, light |-> 100, humidity |-> 0]

\* a text that is empty or holds whitespace only
IsBlank(text) == \A i \in DOMAIN text : text[i] \in Whitespace

\* C13: /chat with an empty or whitespace-only message answers 400 and does
\* nothing else: no turn is logged, no classification starts, no pending
\* request is created and the command map stays as it was. Every other
\* message is taken up.
C13_BlankMessageRefused ==
    [][/\ (/\ response'.handler = "chat"
           /\ response # response'
           /\ response'.code = 400)
            => /\ IsBlank(response'.call.raw)
               /\ UNCHANGED shared
               /\ UNCHANGED <<calls, pending_lock>>
       /\ \A w \in Workers :
            Stepped(w, "idle", "classify") => ~IsBlank(calls'[w].user_message)]_vars

\* a whitespace-only message is refused while the log and the table hold entries
C13_Witness ==
    /\ response.handler = "chat"
    /\ response.code = 400
    /\ response.call.raw = MsgBlank
    /\ conversations # <<>>
    /\ pending_requests # <<>>

\* the handler whose reply the step produces
Answers(handler) == response # response' /\ response'.handler = handler

\* the step runs a setter of the command map: a web setter, /stop_alarm, or
\* the intent extraction of one of the two /chat routes
SetterStep ==
    \/ \E h \in {"control_rgb", "control_buzzer", "set_alarm", "stop_alarm", "set_oled"} :
          Answers(h)
    \/ Answers("chat") /\ response'.code = 200 /\ response'.body.status = "completed"
    \/ \E w \in Workers : Stepped(w, "generate", "scan_time")

\* C14: /clear_commands/<class> leaves no entry of its class in the command
\* map, an entry enters the map only by a setter, and /get_commands/<class>
\* returns entries of the map only: a command that was cleared is returned
\* again only after a setter wrote it anew.
C14_ClearedCommandNotRepeated ==
    [][/\ Answers("clear_commands_esp8266")
            => DOMAIN esp8266_commands' \cap Esp8266Keys = {}
       /\ Answers("clear_commands_esp32")
            => DOMAIN esp8266_commands' \cap Esp32Keys = {}
       /\ (\E k \in DOMAIN esp8266_commands' : k \notin DOMAIN esp8266_commands)
            => SetterStep
       /\ Answers("get_commands_esp8266")
            => \A k \in DOMAIN response'.body :
                  /\ k \in Esp8266Keys \cap DOMAIN esp8266_commands
                  /\ response'.body[k] = esp8266_commands[k]
       /\ Answers("get_commands_esp32")
            => \A k \in DOMAIN response'.body :
                  /\ k \in Esp32Keys \cap DOMAIN esp8266_commands
                  /\ response'.body[k] = esp8266_commands[k]]_vars

\* the intent extraction of a /chat set device commands, and a later pull by
\* the esp8266 finds none of its class while the display text is still there
C14_Witness ==
    /\ response.handler = "get_commands_esp8266"
    /\ response.body = EmptyDict
    /\ "oled_text" \in DOMAIN esp8266_commands
    /\ \E i \in DOMAIN conversations :
          /\ conversations[i].message_type = "assistant"
          /\ Len(conversations[i].metadata.device_commands) > 0

\* the command map d without the entries of keys
Without(d, keys) == [k \in (DOMAIN d) \ keys |-> d[k]]

\* C15: /clear_commands/esp8266 removes rgb_color, buzzer_action,
\* buzzer_duration, alarm, alarm_duration and alarm_type and nothing else;
\* /clear_commands/esp32 removes oled_text and nothing else; neither changes
\* the pending table or the cooldown timestamp.
C15_ClearIsPerDeviceClass ==
    [][/\ Answers("clear_commands_esp8266")
            => /\ esp8266_commands' =
                     Without(esp8266_commands,
                             {"rgb_color", "buzzer_action", "buzzer_duration",
                              "alarm", "alarm_duration", "alarm_type"})
               /\ UNCHANGED <<pending_requests, last_sensor_scan>>
       /\ Answers("clear_commands_esp32")
            => /\ esp8266_commands' = Without(esp8266_commands, {"oled_text"})
               /\ UNCHANGED <<pending_requests, last_sensor_scan>>]_vars

\* the esp8266 clear has run on a map that held commands of both classes, with
\* a request in the table: the display text alone is left
C15_Witness ==
    /\ response.handler = "clear_commands_esp8266"
    /\ DOMAIN esp8266_commands = {"oled_text"}
    /\ pending_requests # <<>>
    /\ \E i \in DOMAIN conversations :
          /\ conversations[i].message_type = "assistant"
          /\ Len(conversations[i].metadata.device_commands) > 0

\* C16: /check_status, /get_pending_request, /get_commands/esp32,
\* /get_commands/esp8266, /scan_status and /current_sensor_data leave the
\* pending table, the cooldown timestamp, the command map, the sensor cache
\* and the logs as they were.
C16_PollsAreReadOnly ==
    [][\A h \in {"check_status", "get_pending_request", "get_commands_esp32",
                 "get_commands_esp8266", "scan_status", "current_sensor_data"} :
          Answers(h) => UNCHANGED shared]_vars

\* the esp8266 pulls a non-empty set of commands while a request is in the table
C16_Witness ==
    /\ response.handler = "get_commands_esp8266"
    /\ response.body # EmptyDict
    /\ response.body = get_commands_esp8266(esp8266_commands)
    /\ pending_requests # <<>>

\* the step reads or writes the pending table: an insert on the action route,
\* the lookup that starts or refuses a delivery, the update that completes
\* one, the lookup of /check_status, the scan of /get_pending_request
TableAccess ==
    \/ pending_requests' # pending_requests
    \/ Answers("chat") /\ response'.code = 200
                       /\ response'.body.status = "waiting_for_sensors"
    \/ Answers("provide_sensor_data") /\ response'.code = 404
    \/ \E w \in Workers : Stepped(w, "idle", "generate")
    \/ \E w \in Workers : calls[w].pc = "generate" /\ calls'[w].pc # "generate"
    \/ Answers("check_status")
    \/ Answers("get_pending_request")

\* the handler taking the step owns the lock during it: the lock was free for
\* it to take, or the handler that holds it is the one that steps
StepOwnsLock ==
    \/ pending_lock = 0
    \/ \E w \in Workers : /\ pending_lock = w
                          /\ calls[w].pc = "generate"
                          /\ calls'[w].pc # "generate"

\* C17: every access to the pending table is made by the handler that owns
\* the lock, and at most one handler is inside the delivery's critical
\* section, the one the lock names.
C17_TableAccessUnderLock ==
    [][/\ TableAccess => StepOwnsLock
       /\ \A w \in Workers : calls'[w].pc = "generate" <=> pending_lock' = w]_vars

\* a delivery holds the lock while another thread's /chat waits to insert
C17_Witness ==
    \E w, v \in Workers :
        /\ w # v
        /\ pending_lock = w
        /\ calls[w].pc = "generate"
        /\ calls[v].pc = "route"
        /\ calls[v].classification.needs_sensor_data

\* C18: while a handler waits for the generation model (a delivery between its
\* lookup and the model's reply) the pending lock is free, so /check_status,
\* /get_pending_request and the insert of another /chat can run.
C18_LockFreeDuringGeneration ==
    (\E w \in Workers : calls[w].pc = "generate") => pending_lock = 0

\* C19: every step that writes the scan-cooldown timestamp or the
\* device-command map owns the pending lock: the lock is free for it to take,
\* or it is the delivery that already holds it. No such write happens while
\* another handler holds the lock.
C19_CooldownAndCommandsUnderLock ==
    [][(\/ last_sensor_scan' # last_sensor_scan
        \/ esp8266_commands' # esp8266_commands) => StepOwnsLock]_vars

\* the user turn of call c is a row of the conversation log
UserTurnLogged(rows, c) ==
    \E i \in 1 .. Len(rows) :
        /\ rows[i].message_type = "user"
        /\ rows[i].session_id = c.session_id
        /\ rows[i].content = c.user_message

\* C20: each /chat call with a non-empty message goes through its three steps
\* in order, whatever the other calls do in between: the step that accepts the
\* message appends its user turn to the log; classification runs only for an
\* accepted call whose turn is logged and touches neither the log nor the
\* pending table; the route's work (the 200 reply with the new pending entry
\* or the generated answer) is done only by a call that has been classified.
C20_ChatStepsInOrder ==
    [][/\ \A w \in Workers :
            /\ Stepped(w, "idle", "classify") =>
                   /\ Len(conversations') = Len(conversations) + 1
                   /\ SubSeq(conversations', 1, Len(conversations)) = conversations
                   /\ UserTurnLogged(<<conversations'[Len(conversations')]>>, calls'[w])
            /\ (calls'[w].pc = "classify" /\ calls[w].pc # "classify") =>
                   calls[w].pc = "idle"
            /\ (calls'[w].pc = "route" /\ calls[w].pc # "route") =>
                   /\ calls[w].pc = "classify"
                   /\ UserTurnLogged(conversations, calls[w])
                   /\ UNCHANGED <<conversations, pending_requests, esp8266_commands>>
            /\ (calls[w].pc = "route" /\ calls'[w].pc # "route") =>
                   /\ calls'[w].pc = "idle"
                   /\ Answers("chat")
                   /\ response'.code = 200
                   /\ response'.call.user_message = calls[w].user_message
       /\ (Answers("chat") /\ response'.code = 200) =>
            /\ \E w \in Workers : Stepped(w, "route", "idle")
            /\ UserTurnLogged(conversations, response'.call)
            /\ IF response'.body.needs_sensor_data
               THEN response'.body.request_id \in Ids(pending_requests')
               ELSE conversations'[Len(conversations')].message_type = "assistant"
      ]_vars

\* a /chat call that was accepted second has been answered while the call
\* accepted first is classified and still waits for its route
C20_Witness ==
    /\ response.handler = "chat"
    /\ response.code = 200
    /\ calls[1].pc = "route"
    /\ calls[2].pc = "idle"
    /\ UserTurnLogged(conversations, calls[1])
    /\ UserTurnLogged(conversations, response.call)

\* number of places where the text has the two characters %s
Placeholders(query) ==
    Cardinality({i \in 1 .. Len(query) - 1 : query[i] = "%" /\ query[i + 1] = "s"})

\* the template reads or joins table tbl: after FROM or JOIN and white space
\* comes the name tbl, and the name ends there
ReadsTable(query, tbl) ==
    LET text == lower(query)
        n == Len(tbl)
    IN \E i \in 2 .. (Len(text) - n + 1) :
         /\ SubSeq(text, i, i + n - 1) = tbl
         /\ i + n <= Len(text) =>
               /\ IndexIn(LowerCase, text[i + n]) = 0
               /\ ~IsDigit(text[i + n])
               /\ text[i + n] # "_"
         /\ text[i - 1] \in Whitespace
         /\ LET before == {j \in 1 .. i - 1 : text[j] \notin Whitespace}
            IN /\ before # {}
               /\ LET k == CHOOSE j \in before : \A m \in before : m <= j
                  IN /\ k >= 4
                     /\ SubSeq(text, k - 3, k) \in {<<"f","r","o","m">>, <<"j","o","i","n">>}

\* the entry of a template that was handed to the store
WasRun(entry) == "error" \notin DOMAIN entry

\* C21: in what execute_sql_queries returns, a template whose number of %s
\* placeholders differs from the number of its parameters, or which reads
\* neither table conversations nor table environment_changes, has an error
\* entry under its label and was not handed to the store.
C21_UnsafeTemplatesNeverRun ==
    (response.handler = "execute_sql_queries" /\ response.up) =>
        \A i \in DOMAIN response.call.sql_queries :
            LET query_info == response.call.sql_queries[i]
            IN (\/ Placeholders(query_info.query) # Len(query_info.parameters)
                \/ \A tbl \in allowed_tables : ~ReadsTable(query_info.query, tbl)) =>
                  ~WasRun(response.body[QueryLabel[i]])

\* C22: with the store reachable the result has one entry per template, under
\* query_1 .. query_n, and the entry of template i is the one that template
\* gets when it is the only one in the list: an error in one template changes
\* no other entry, and every template that passes is run. With the store
\* unreachable the result is the single key error and no template is run.
C22_ViolationsArePerTemplate ==
    response.handler = "execute_sql_queries" =>
        LET sql_queries == response.call.sql_queries
        IN IF response.up
           THEN /\ DOMAIN response.body = {QueryLabel[i] : i \in DOMAIN sql_queries}
                /\ \A i \in DOMAIN sql_queries :
                     /\ response.body[QueryLabel[i]] =
                            execute_sql_queries(<<sql_queries[i]>>, TRUE)["query_1"]
                     /\ response.body[QueryLabel[i]].purpose = sql_queries[i].purpose
                     /\ WasRun(response.body[QueryLabel[i]]) =>
                            response.body[QueryLabel[i]].data.executed = sql_queries[i].query
           ELSE /\ DOMAIN response.body = {"error"}
                /\ response.body["error"] = "Database connection failed"

\* a list of a template on table users followed by the fixed conversations
\* template has come back: an error under query_1, the rows under query_2
C22_Witness ==
    /\ response.handler = "execute_sql_queries"
    /\ response.up
    /\ Len(response.call.sql_queries) = 2
    /\ response.call.sql_queries[1].query = QUsers
    /\ response.call.sql_queries[2].query = ConversationsQueryText
    /\ ~WasRun(response.body["query_1"])
    /\ WasRun(response.body["query_2"])

\* C23: what /chat and /provide_sensor_data reply and what they leave in the
\* pending table is the same whether the store takes the log rows or not: a
\* non-blank message is never refused, the only 500 is the one of a failed
\* generation, a successful generation completes the entry with the response
\* that is then returned with 200, and each route of /chat replies 200.
C23_LogFailureNeverAborts ==
    [][/\ (Answers("chat") \/ Answers("provide_sensor_data")) =>
            /\ response'.code = 500 =>
                  /\ "generation" \in DOMAIN response'
                  /\ ~response'.generation.ok
            /\ response'.code = 400 => IsBlank(response'.call.raw)
       /\ \A w \in Workers :
            /\ Stepped(w, "generate", "scan_time") =>
                  /\ StatusOf(pending_requests', calls[w].request_id) = "completed"
                  /\ Entry(pending_requests', calls[w].request_id).result
                        = calls'[w].final_response
                  /\ calls'[w].generation.ok
            /\ Stepped(w, "generate", "idle") =>
                  /\ Answers("provide_sensor_data")
                  /\ response'.code = 500
                  /\ UNCHANGED pending_requests
            /\ Stepped(w, "scan_time", "idle") =>
                  /\ Answers("provide_sensor_data")
                  /\ response'.code = 200
                  /\ response'.body.status = "completed"
                  /\ response'.body.response = calls[w].final_response
            /\ Stepped(w, "route", "idle") =>
                  /\ Answers("chat")
                  /\ response'.code = 200
                  /\ response'.body.status =
                        (IF calls[w].classification.needs_sensor_data
                         THEN "waiting_for_sensors" ELSE "completed")
                  /\ calls[w].classification.needs_sensor_data =>
                        response'.body.request_id \in Ids(pending_requests')
      ]_vars

\* the store went away before the first call: nothing is in either log, and a
\* delivery has been answered 200 with its entry completed
C23_Witness ==
    /\ ~db_up
    /\ conversations = <<>>
    /\ environment_changes = <<>>
    /\ response.handler = "provide_sensor_data"
    /\ response.code = 200
    /\ StatusOf(pending_requests, response.body.request_id) = "completed"

\* the text parse_device_commands searches, for the call a reply answers
CombinedText(call) == lower(call.user_message \o <<" ">> \o call.llm_response)

\* key of the command map has the same value, or is absent, in both maps
SameAt(key, before, after) ==
    /\ (key \in DOMAIN after) = (key \in DOMAIN before)
    /\ key \in DOMAIN after => after[key] = before[key]

\* the colour names in the order of their precedence
ColorPrecedence ==
    << [name |-> "red", word |-> ColorWords[8]], [name |-> "blue", word |-> ColorWords[7]],
       [name |-> "green", word |-> ColorWords[6]], [name |-> "yellow", word |-> ColorWords[5]],
       [name |-> "purple", word |-> ColorWords[4]], [name |-> "cyan", word |-> ColorWords[3]],
       [name |-> "white", word |-> ColorWords[1]] >>

\* C24: after parse_device_commands, at most one colour command was issued;
\* rgb_color is the first name of red, blue, green, yellow, purple, cyan, white
\* that occurs in the combined text, and is as it was when none occurs.
C24_FirstColourWins ==
    response.handler = "parse_device_commands" =>
        LET text == CombinedText(response.call)
            present == {i \in DOMAIN ColorPrecedence : Contains(text, ColorPrecedence[i].word)}
            issued == {k \in DOMAIN response.body : response.body[k][1] = "RGB light set to"}
        IN /\ Cardinality(issued) <= 1
           /\ IF present = {}
              THEN /\ issued = {}
                   /\ SameAt("rgb_color", response.before, esp8266_commands)
              ELSE /\ Cardinality(issued) = 1
                   /\ esp8266_commands["rgb_color"] =
                         ColorPrecedence[CHOOSE i \in present : \A j \in present : i <= j].name

\* text[i .. j] is a number followed, after any white space, by "sec"
NumberSecAt(text, i, j) ==
    /\ \A k \in i .. j : IsDigit(text[k])
    /\ \E k \in (j + 1) .. (Len(text) - 2) :
          /\ \A m \in (j + 1) .. (k - 1) : text[m] \in Whitespace
          /\ text[k] = "s" /\ text[k + 1] = "e" /\ text[k + 2] = "c"

\* the number of the first "<N> sec" pattern of the text, or `default`
FirstSeconds(text, default) ==
    LET found == {p \in (DOMAIN text) \X (DOMAIN text) :
                     /\ p[1] <= p[2]
                     /\ NumberSecAt(text, p[1], p[2])
                     /\ p[2] = Len(text) \/ ~IsDigit(text[p[2] + 1])}
    IN IF found = {} THEN default
       ELSE LET first == CHOOSE p \in found : \A q \in found : p[1] <= q[1]
            IN ToInt(SubSeq(text, first[1], first[2]))

\* the word occurs in the text
Says(text, word) == Contains(text, word)

\* C25: when "alarm" occurs in the combined text, parse_device_commands leaves
\* alarm = TRUE, alarm_duration = the number of the first "<N> sec" pattern or
\* 10 without one, and alarm_type = urgent if "urgent" or "emergency" occurs,
\* else reminder if "reminder" occurs, else standard.
C25_AlarmCommand ==
    (/\ response.handler = "parse_device_commands"
     /\ Says(CombinedText(response.call), <<"a","l","a","r","m">>)) =>
        LET text == CombinedText(response.call)
        IN /\ {"alarm", "alarm_duration", "alarm_type"} \subseteq DOMAIN esp8266_commands
           /\ esp8266_commands["alarm"] = TRUE
           /\ esp8266_commands["alarm_duration"] = FirstSeconds(text, 10)
           /\ esp8266_commands["alarm_type"] =
                 (IF \/ Says(text, <<"u","r","g","e","n","t">>)
                     \/ Says(text, <<"e","m","e","r","g","e","n","c","y">>)
                  THEN "urgent"
                  ELSE IF Says(text, <<"r","e","m","i","n","d","e","r">>) THEN "reminder"
                  ELSE "standard")

\* "set alarm for 2 seconds" has been parsed over a map that held a reminder
\* alarm of 30 seconds: the alarm is on, for 2 seconds, of type standard
C25_Witness ==
    /\ response.handler = "parse_device_commands"
    /\ response.call.user_message =
          <<"s","e","t"," ","a","l","a","r","m"," ","f","o","r"," ","2"," ",
            "s","e","c","o","n","d","s">>
    /\ response.call.llm_response = <<>>
    /\ response.before = OldCommands
    /\ esp8266_commands["alarm"] = TRUE
    /\ esp8266_commands["alarm_duration"] = 2
    /\ esp8266_commands["alarm_type"] = "standard"

\* C26: when "buzzer" or "beep" occurs in the combined text,
\* parse_device_commands leaves buzzer_action = beep and buzzer_duration = the
\* number N of the first "<N> sec" pattern, for every N >= 0, or 2 without one.
C26_BuzzerCommand ==
    (/\ response.handler = "parse_device_commands"
     /\ \/ Says(CombinedText(response.call), <<"b","u","z","z","e","r">>)
        \/ Says(CombinedText(response.call), <<"b","e","e","p">>)) =>
        /\ {"buzzer_action", "buzzer_duration"} \subseteq DOMAIN esp8266_commands
        /\ esp8266_commands["buzzer_action"] = "beep"
        /\ esp8266_commands["buzzer_duration"] = FirstSeconds(CombinedText(response.call), 2)

\* the categories in the order of the claim
CategoryOrder ==
    << <<"s","t","u","d","y">>, <<"s","l","e","e","p">>, <<"y","o","g","a">>,
       <<"r","e","a","d">>, <<"w","o","r","k">>, <<"r","e","l","a","x">> >>

\* category i has one of its keywords in the text
Mentions(text, i) ==
    \E k \in DOMAIN activity_keywords[i].keywords :
        Contains(text, activity_keywords[i].keywords[k])

\* C27: the activity found for a user message is the first category, in the
\* order study, sleep, yoga, read, work, relax, with a keyword in the
\* lower-cased message, and general when there is none, whatever the reply
\* of the model says.
C27_FirstActivityWins ==
    response.handler = "parse_device_commands" =>
        LET text == lower(response.call.user_message)
        IN /\ \A i \in DOMAIN CategoryOrder :
                /\ activity_keywords[i].activity = CategoryOrder[i]
                /\ (Mentions(text, i) /\ \A j \in 1 .. (i - 1) : ~Mentions(text, j)) =>
                      response.activity = CategoryOrder[i]
           /\ (\A i \in DOMAIN CategoryOrder : ~Mentions(text, i)) =>
                 response.activity = General

\* a message with a keyword of every category, relax first and study last,
\* has been given the activity study
C27_Witness ==
    /\ response.handler = "parse_device_commands"
    /\ response.call.user_message = Join(ActivityWords)
    /\ \A i \in DOMAIN CategoryOrder : Mentions(lower(response.call.user_message), i)
    /\ response.activity = CategoryOrder[1]

\* C28: once the entry of a request id is completed, no /provide_sensor_data
\* call for that id gets as far as the log write and the generation call, and
\* no step of a delivery changes the entry's result, status or completed_at.
C28_DeliveredOnce ==
    [][\A id \in Ids(pending_requests) :
          StatusOf(pending_requests, id) = "completed" =>
              \A w \in Workers :
                  /\ ~(Stepped(w, "idle", "generate") /\ calls'[w].request_id = id)
                  /\ (calls[w].pc = "generate" /\ calls[w].request_id = id) =>
                        Entry(pending_requests', id) = Entry(pending_requests, id)
      ]_vars

\* C29: a /chat call on the action route adds exactly one entry to the pending
\* table, under an id that no entry had before, and leaves every entry that
\* was there as it was.
C29_RequestIdsUnique ==
    [][(Answers("chat") /\ response'.code = 200 /\ response'.body.needs_sensor_data) =>
          /\ response'.body.request_id \notin Ids(pending_requests)
          /\ Len(pending_requests') = Len(pending_requests) + 1
          /\ SubSeq(pending_requests', 1, Len(pending_requests)) = pending_requests
          /\ pending_requests'[Len(pending_requests')].request_id = response'.body.request_id
      ]_vars

\* C30: no step of any handler removes a request id from the pending table.
C30_EntriesNeverDeleted ==
    [][Ids(pending_requests) \subseteq Ids(pending_requests')]_vars

\* the table holds two requests, one of them completed by the delivery that
\* has just been answered, the other still waiting
C30_Witness ==
    /\ Len(pending_requests) = 2
    /\ response.handler = "provide_sensor_data"
    /\ response.code = 200
    /\ StatusOf(pending_requests, response.body.request_id) = "completed"
    /\ \E id \in Ids(pending_requests) :
          StatusOf(pending_requests, id) = "waiting_for_sensors"

\* C31: an entry's sensor_data is null until a snapshot is supplied, and the
\* step that completes an entry leaves in it the snapshot of the delivery
\* that completed it.
C31_SensorDataRecorded ==
    [][\A w \in Workers :
          Stepped(w, "generate", "scan_time") =>
             LET before == Entry(pending_requests, calls[w].request_id)
                 after == Entry(pending_requests', calls[w].request_id)
             IN /\ before.status = "waiting_for_sensors" => before.sensor_data = None
                /\ after.status = "completed"
                /\ after.sensor_data = calls[w].sensor_data]_vars

\* a character of a table name
IsNameChar(c) == IndexIn(LowerCase, c) # 0 \/ IsDigit(c) \/ c = "_"

\* the tables a template reads or joins: each name that follows FROM or JOIN
\* and white space, taken to the end of the name
TablesRead(query) ==
    LET text == lower(query)
        FollowsKeyword(i) ==
            /\ text[i - 1] \in Whitespace
            /\ LET before == {j \in 1 .. i - 1 : text[j] \notin Whitespace}
               IN /\ before # {}
                  /\ LET k == CHOOSE j \in before : \A m \in before : m <= j
                     IN /\ k >= 4
                        /\ SubSeq(text, k - 3, k) \in
                              {<<"f","r","o","m">>, <<"j","o","i","n">>}
        NameEnd(i) ==
            CHOOSE e \in i .. Len(text) :
                /\ \A j \in i .. e : IsNameChar(text[j])
                /\ e < Len(text) => ~IsNameChar(text[e + 1])
    IN {SubSeq(text, i, NameEnd(i)) :
          i \in {k \in 2 .. Len(text) : IsNameChar(text[k]) /\ FollowsKeyword(k)}}

\* C32: in what execute_sql_queries returns, a template that reads or joins a
\* table other than conversations and environment_changes, alone or next to
\* an allowed one, has an error entry under its label and was not handed to
\* the store.
C32_OnlyAllowedTablesRun ==
    (response.handler = "execute_sql_queries" /\ response.up) =>
        \A i \in DOMAIN response.call.sql_queries :
            LET query_info == response.call.sql_queries[i]
            IN (/\ TablesRead(query_info.query) \cap allowed_tables # {}
                /\ TablesRead(query_info.query) \ allowed_tables # {}) =>
                  ~WasRun(response.body[QueryLabel[i]])

\* C33: while a delivery has completed its entry and has not yet restarted the
\* cooldown, no other handler observes the completion: /check_status does not
\* answer completed for that id, and a /chat with an explicit scan keyword is
\* not classified as a new scan.
C33_CompletionAndCooldownAtomic ==
    [][\A v \in Workers :
          (/\ calls[v].pc = "scan_time"
           /\ StatusOf(pending_requests, calls[v].request_id) = "completed") =>
             /\ ~(/\ Answers("check_status")
                  /\ response'.code = 200
                  /\ response'.call.request_id = calls[v].request_id
                  /\ response'.body.status = "completed")
             /\ \A w \in Workers :
                   (Stepped(w, "classify", "route")
                       /\ ExplicitScanTable[calls[w].user_message]) =>
                      ~calls'[w].classification.needs_sensor_data]_vars

\* C34: every entry of the pending table is waiting_for_sensors or completed;
\* its result is null exactly when it is waiting and is the response of a
\* successful generation when it is completed; completed_at is set only on a
\* completed entry.
C34_EntryFieldsAgree ==
    \A i \in DOMAIN pending_requests :
        LET e == pending_requests[i]
        IN /\ e.status \in {"waiting_for_sensors", "completed"}
           /\ e.status = "waiting_for_sensors" <=> e.result = None
           /\ e.status = "completed" =>
                 \E gen \in GenerationResults :
                     /\ gen.ok
                     /\ e.result.text = gen.text
                     /\ e.result \in Deliveries(e.request_id)
           /\ e.completed_at # None => e.status = "completed"

\* the table holds a completed entry, with its result and completion time,
\* next to one that still waits
C34_Witness ==
    /\ \E i \in DOMAIN pending_requests :
          /\ pending_requests[i].status = "completed"
          /\ pending_requests[i].result # None
          /\ pending_requests[i].completed_at # None
    /\ \E i \in DOMAIN pending_requests :
          /\ pending_requests[i].status = "waiting_for_sensors"
          /\ pending_requests[i].result = None

\* worker w's delivery leaves the lock with its generation call failed
GenerationFailed(w) ==
    /\ calls[w].pc = "generate"
    /\ calls'[w].pc # "generate"
    /\ ~(IF calls'[w].pc = "scan_time" THEN calls'[w].generation
                                       ELSE response'.generation).ok

\* C35: when the generation call of a delivery for a waiting request fails,
\* the delivery answers with an error, the lock is free again, the entry is
\* still waiting_for_sensors with result null, the cooldown timestamp is what
\* it was, and /get_pending_request still returns that id if it did before.
C35_FailedDeliveryLeavesRequestWaiting ==
    [][\A w \in Workers :
          (/\ GenerationFailed(w)
           /\ StatusOf(pending_requests, calls[w].request_id) = "waiting_for_sensors") =>
             LET request_id == calls[w].request_id
             IN /\ Answers("provide_sensor_data")
                /\ response'.code = 500
                /\ response'.body.status = "error"
                /\ calls'[w] = Idle
                /\ pending_lock' = 0
                /\ request_id \in Ids(pending_requests')
                /\ Entry(pending_requests', request_id).status = "waiting_for_sensors"
                /\ Entry(pending_requests', request_id).result = None
                /\ last_sensor_scan' = last_sensor_scan
                /\ scan_event' = scan_event
                /\ get_pending_request(pending_requests).request_id = request_id =>
                      get_pending_request(pending_requests').request_id = request_id]_vars

\* the error of a failed delivery has come back and the poll offers the same
\* id once more
C35_Witness ==
    /\ response.handler = "provide_sensor_data"
    /\ response.code = 500
    /\ ~response.generation.ok
    /\ pending_lock = 0
    /\ StatusOf(pending_requests, response.call.request_id) = "waiting_for_sensors"
    /\ get_pending_request(pending_requests).request_id = response.call.request_id

\* the ids /chat can give out while the clock stands at StartTime
PossibleIds == {RequestId(StartTime, m) : m \in Messages}

\* the table has an entry for id with this status
HasStatus(id, status) ==
    id \in Ids(pending_requests) /\ StatusOf(pending_requests, id) = status

NoneWaiting == \A i \in DOMAIN pending_requests : pending_requests[i].status = "completed"

\* C36: with the client polling and posting for the id it is given, every
\* generation call succeeding and finitely many /chat calls, each request that
\* is waiting_for_sensors is eventually completed, and from some moment on no
\* request is waiting, so that /get_pending_request returns the empty id.
C36_WaitingRequestsGetCompleted ==
    /\ \A id \in PossibleIds :
          HasStatus(id, "waiting_for_sensors") ~> HasStatus(id, "completed")
    /\ <>[](NoneWaiting /\ get_pending_request(pending_requests).request_id = <<>>)
    /\ []<>(response.handler = "get_pending_request" /\ response.body.request_id = <<>>)

\* two requests have been completed by the client and the poll that follows
\* comes back with the empty id
C36_Witness ==
    /\ Len(pending_requests) = 2
    /\ NoneWaiting
    /\ response.handler = "get_pending_request"
    /\ response.body.request_id = <<>>

\* C37: /get_pending_request offers waiting requests in the order they were
\* created: when /chat creates a request, every other request that is waiting
\* at that moment stands before it in the order the poll goes through, and
\* the poll returns the first waiting one in that order.
C37_PollServesInCreationOrder ==
    [][(/\ Answers("chat")
        /\ response'.code = 200
        /\ response'.body.status = "waiting_for_sensors") =>
          LET created == response'.body.request_id
              earlier == {pending_requests[i].request_id : i \in
                            {k \in DOMAIN pending_requests :
                                /\ pending_requests[k].status = "waiting_for_sensors"
                                /\ pending_requests[k].request_id # created}}
          IN /\ created \in Ids(pending_requests')
             /\ \A id \in earlier :
                   /\ IndexOfId(pending_requests', id) < IndexOfId(pending_requests', created)
                   /\ get_pending_request(pending_requests').request_id # created]_vars

\* C38: when a device's /clear_commands removes a command of its class, the
\* /get_commands of that device that came before it returned that command
\* with the value that is removed.
C38_NoCommandClearedUndelivered ==
    [][\A w \in Workers :
          Stepped(w, "pulled", "idle") =>
             \A key \in ClassKeys(calls[w].class) :
                (key \in DOMAIN esp8266_commands /\ key \notin DOMAIN esp8266_commands') =>
                   /\ key \in DOMAIN calls[w].sent
                   /\ calls[w].sent[key] = esp8266_commands[key]]_vars

\* the list get_predefined_queries returns for a session, with the statements
\* as the texts of lines 134-143 and 148-158
PredefinedTemplates(session_id) ==
    << [purpose |-> get_predefined_queries(session_id)[1].purpose,
        query |-> ConversationsQueryText, parameters |-> <<session_id>>],
       [purpose |-> get_predefined_queries(session_id)[2].purpose,
        query |-> EnvironmentChangesQueryText, parameters |-> <<session_id>>] >>

\* number of places where the text has character c
Occurrences(text, c) == Cardinality({i \in 1 .. Len(text) : text[i] = c})

\* C39: a template that get_predefined_queries returns, for any session, is
\* handed to the store by execute_sql_queries with its one parameter and gets
\* no validation error; it has no '?', one %s for its one parameter, reads
\* one of the two allowed tables and no other, has at most one ';' and has
\* neither '--' nor '/'.
C39_PredefinedTemplatesPassValidation ==
    (response.handler = "execute_sql_queries" /\ response.up) =>
        \A i \in DOMAIN response.call.sql_queries :
            LET query_info == response.call.sql_queries[i]
                query == query_info.query
            IN (\E sid \in ClassifySessions, k \in 1 .. 2 :
                    query_info = PredefinedTemplates(sid)[k]) =>
                  /\ WasRun(response.body[QueryLabel[i]])
                  /\ response.body[QueryLabel[i]].data.executed = query
                  /\ response.body[QueryLabel[i]].data.with = query_info.parameters
                  /\ Occurrences(query, "?") = 0
                  /\ Placeholders(query) = 1
                  /\ Len(query_info.parameters) = 1
                  /\ TablesRead(query) # {}
                  /\ TablesRead(query) \subseteq allowed_tables
                  /\ Occurrences(query, ";") <= 1
                  /\ Occurrences(query, "/") = 0
                  /\ \A j \in 1 .. Len(query) - 1 : ~(query[j] = "-" /\ query[j + 1] = "-")

\* the two templates of a session have come back from execute_sql_queries,
\* both with the rows of the store
C39_Witness ==
    /\ response.handler = "execute_sql_queries"
    /\ response.up
    /\ response.call.sql_queries = PredefinedTemplates("s2")
    /\ WasRun(response.body["query_1"])
    /\ WasRun(response.body["query_2"])

====
